---------------------------- MODULE Spec2Model ----------------------------
(***************************************************************************)
(* A model of the Editor component of the AI writing assistant            *)
(* (src/unnamed/part_001, the later revision of src/components/editor.tsx):*)
(* the text buffer, the live suggestion set, the selection, the typing     *)
(* timer, the dictionary and remote analyses in flight, and the section    *)
(* cache of the incremental analysis.                                      *)
(*                                                                         *)
(* Texts are sequences of one-character strings.                           *)
(*                                                                         *)
(* Offsets are JavaScript numbers.  findFuzzyMatches computes              *)
(* windowSize / 2 and searchText.length * 1.5, so an offset is a multiple  *)
(* of one half.  Every offset of the model is therefore kept in HALF       *)
(* CHARACTERS (fixed point, one binary digit):  H(n) is the integer n,     *)
(* Trunc(x) is what String.prototype.substring makes of x.                 *)
(***************************************************************************)
EXTENDS Integers, Sequences, FiniteSets, TLC

(***************************************************************************)
(* Numbers                                                                 *)
(***************************************************************************)
Min(a, b) == IF a <= b THEN a ELSE b
Max(a, b) == IF a >= b THEN a ELSE b
Abs(a) == IF a < 0 THEN 0 - a ELSE a

\* The integer n as an offset (half characters).
H(n) == 2 * n
\* ToIntegerOrInfinity of an offset that is not negative.
Trunc(x) == x \div 2
IsInteger(x) == x % 2 = 0

(***************************************************************************)
(* Characters and the String methods the editor uses                       *)
(***************************************************************************)
NL == "\n"
UpperChars == <<"A", "B", "C", "D", "E", "F", "G", "H", "I", "J", "K", "L", "M",
                "N", "O", "P", "Q", "R", "S", "T", "U", "V", "W", "X", "Y", "Z">>
LowerChars == <<"a", "b", "c", "d", "e", "f", "g", "h", "i", "j", "k", "l", "m",
                "n", "o", "p", "q", "r", "s", "t", "u", "v", "w", "x", "y", "z">>
DigitChars == {"0", "1", "2", "3", "4", "5", "6", "7", "8", "9"}
SpaceChars == {" ", NL, "\t"}

IsUpper(c) == \E i \in 1..Len(UpperChars) : UpperChars[i] = c
IsLower(c) == \E i \in 1..Len(LowerChars) : LowerChars[i] = c
IsDigit(c) == c \in DigitChars
\* \s
IsSpace(c) == c \in SpaceChars
\* \w
IsWordChar(c) == IsUpper(c) \/ IsLower(c) \/ IsDigit(c) \/ c = "_"

LowerChar(c) ==
    IF IsUpper(c)
    THEN LowerChars[CHOOSE i \in 1..Len(UpperChars) : UpperChars[i] = c]
    ELSE c

\* String.prototype.toLowerCase
ToLowerCase(s) == [i \in 1..Len(s) |-> LowerChar(s[i])]

\* String.prototype.substring(a, b) on offsets: NaN and negatives become 0,
\* fractions are truncated, both ends are clamped to the length and swapped
\* when out of order.
Substring(s, a, b) ==
    LET ca == Min(Max(Trunc(Max(a, 0)), 0), Len(s))
        cb == Min(Max(Trunc(Max(b, 0)), 0), Len(s))
    IN  SubSeq(s, Min(ca, cb) + 1, Max(ca, cb))

\* s.substring(a)
SubstringFrom(s, a) == Substring(s, a, H(Len(s)))

\* The 0-based index i is the start of an occurrence of pat in s.
OccursAt(s, pat, i) ==
    /\ i >= 0
    /\ i + Len(pat) <= Len(s)
    /\ \A j \in 1..Len(pat) : s[i + j] = pat[j]

\* String.prototype.indexOf(pat, from): the first index >= from, or -1.
IndexOfFrom(s, pat, from) ==
    LET f == Min(Max(from, 0), Len(s))
        hits == {i \in f..Len(s) : OccursAt(s, pat, i)}
    IN  IF hits = {} THEN 0 - 1
        ELSE CHOOSE i \in hits : \A j \in hits : i <= j

IndexOf(s, pat) == IndexOfFrom(s, pat, 0)

\* String.prototype.includes
Includes(s, pat) == IndexOf(s, pat) # 0 - 1

\* String.prototype.trim
RECURSIVE TrimStart(_)
TrimStart(s) ==
    IF s # <<>> /\ IsSpace(Head(s)) THEN TrimStart(Tail(s)) ELSE s

RECURSIVE TrimEnd(_)
TrimEnd(s) ==
    IF s # <<>> /\ IsSpace(s[Len(s)]) THEN TrimEnd(SubSeq(s, 1, Len(s) - 1)) ELSE s

Trim(s) == TrimEnd(TrimStart(s))

\* String.prototype.split(/\s+/): the pieces between the maximal runs of white
\* space, an empty piece before a leading run and after a trailing one.
RECURSIVE SplitWs(_, _, _)
SplitWs(s, i, cur) ==
    IF i > Len(s) THEN <<cur>>
    ELSE IF IsSpace(s[i])
         THEN IF i > 1 /\ IsSpace(s[i - 1])
              THEN SplitWs(s, i + 1, cur)
              ELSE <<cur>> \o SplitWs(s, i + 1, <<>>)
         ELSE SplitWs(s, i + 1, Append(cur, s[i]))

SplitWhitespace(s) == SplitWs(s, 1, <<>>)

\* Array.prototype.join(' ')
RECURSIVE JoinSpace(_)
JoinSpace(ws) ==
    IF ws = <<>> THEN <<>>
    ELSE IF Len(ws) = 1 THEN ws[1]
    ELSE ws[1] \o <<" ">> \o JoinSpace(Tail(ws))

\* Array.prototype.slice(a, b) with 0 <= a
Slice(seq, a, b) == SubSeq(seq, a + 1, Min(b, Len(seq)))

\* Array.prototype.sort with compare(x, y) = key(x) - key(y).  The sort is
\* stable: an element is inserted after the elements whose key is not greater.
\* pairs are <<key, element>>.
RECURSIVE InsertByKey(_, _)
InsertByKey(sorted, pair) ==
    IF sorted = <<>> THEN <<pair>>
    ELSE IF pair[1] < Head(sorted)[1] THEN <<pair>> \o sorted
    ELSE <<Head(sorted)>> \o InsertByKey(Tail(sorted), pair)

RECURSIVE SortPairs(_)
SortPairs(pairs) ==
    IF pairs = <<>> THEN <<>>
    ELSE InsertByKey(SortPairs(SubSeq(pairs, 1, Len(pairs) - 1)), pairs[Len(pairs)])

\* seq sorted by ascending key[i], keys being a sequence as long as seq.
SortByKey(seq, keys) ==
    LET sorted == SortPairs([i \in 1..Len(seq) |-> <<keys[i], seq[i]>>])
    IN  [i \in 1..Len(seq) |-> sorted[i][2]]

(***************************************************************************)
(* PositionLocator: findExactTextPosition, findWithContext,                *)
(* findFuzzyMatches.  An absent or empty context string is <<>>.           *)
(***************************************************************************)
\* Characters of slack around a context string (findWithContext).
ContextSlack == 10
\* Largest search window of the fuzzy fallback (findFuzzyMatches).
FuzzyWindowSize == 500
\* A word of the original takes part in the fuzzy match when longer than this.
FuzzyMinWordLen == 2
\* The fuzzy fallback returns at most this many candidates.
FuzzyTopMatches == 3

\* The start indices of the occurrences of pat, ascending: the loop
\* searchIndex = text.indexOf(searchText, searchIndex + 1).
Occurrences(text, pat) ==
    LET hits == {i \in 0..Len(text) : OccursAt(text, pat, i)}
        RECURSIVE Asc(_)
        Asc(from) ==
            IF \A i \in hits : i < from THEN <<>>
            ELSE LET nxt == CHOOSE i \in hits :
                                /\ i >= from
                                /\ \A j \in hits : j >= from => i <= j
                 IN  <<nxt>> \o Asc(nxt + 1)
    IN  Asc(0)

\* The text findWithContext looks for contextBefore in: the
\* contextBefore.length + 10 characters before the occurrence.
BeforeText(text, contextBefore, searchIndex) ==
    Substring(text, H(Max(0, searchIndex - Len(contextBefore) - ContextSlack)),
              H(searchIndex))

\* A variant without the 10 characters of slack.
AfterTextNoSlack(text, contextAfter, afterStart) ==
    Substring(text, H(afterStart), H(Min(Len(text), afterStart + Len(contextAfter))))

\* The text findWithContext looks for contextAfter in: the
\* contextAfter.length + 10 characters after the occurrence.
AfterText(text, contextAfter, afterStart) ==
    Substring(text, H(afterStart),
              H(Min(Len(text), afterStart + Len(contextAfter) + ContextSlack)))

\* A context string is used when it is given and not blank.
UsesContext(context) == context # <<>> /\ Trim(context) # <<>>

\* The match findWithContext records for the occurrence at idx, given what
\* the two context tests found.
ScoredMatch(idx, len, useBefore, beforeOk, useAfter, afterOk) ==
    [start |-> H(idx),
     end |-> H(idx + len),
     score |-> 1 + (IF useBefore /\ beforeOk THEN 2 ELSE 0)
                 + (IF useAfter /\ afterOk THEN 2 ELSE 0),
     isValidMatch |-> (useBefore => beforeOk) /\ (useAfter => afterOk)]

\* The context check and score of the occurrence at index idx.
ContextMatch(text, searchText, contextBefore, contextAfter, idx) ==
    ScoredMatch(idx, Len(searchText),
                UsesContext(contextBefore),
                Includes(BeforeText(text, contextBefore, idx), contextBefore),
                UsesContext(contextAfter),
                Includes(AfterText(text, contextAfter, idx + Len(searchText)),
                         contextAfter))

IsValidContextMatch(m) == m.isValidMatch

\* matches.sort((a, b) => b.score - a.score)
SortByScore(matches) ==
    SortByKey(matches, [i \in 1..Len(matches) |-> 0 - matches[i].score])

\* The matches of the occurrences at the indices occ.
ContextMatches(text, searchText, contextBefore, contextAfter, occ) ==
    [i \in 1..Len(occ) |->
        ContextMatch(text, searchText, contextBefore, contextAfter, occ[i])]

\* findWithContext: the occurrences that pass every context given, highest
\* score first.
FindWithContext(text, searchText, contextBefore, contextAfter) ==
    SortByScore(SelectSeq(ContextMatches(text, searchText, contextBefore,
                                         contextAfter,
                                         Occurrences(text, searchText)),
                          IsValidContextMatch))

IsFuzzyWord(w) == Len(w) > FuzzyMinWordLen

\* How many of the search words occur in the slice.
RECURSIVE MatchedWords(_, _)
MatchedWords(searchWords, windowSlice) ==
    IF searchWords = <<>> THEN 0
    ELSE (IF Includes(windowSlice, Head(searchWords)) THEN 1 ELSE 0)
         + MatchedWords(Tail(searchWords), windowSlice)

\* findFuzzyMatches.  confidence is kept as the number of matched words;
\* matched / n >= 0.6 is 10 * matched >= 6 * n, and the order by
\* confidence - |start - hintPos| / 1000 is the order by
\* 2000 * matched - n * |start - hintPos| on half-character offsets.

\* searchText.toLowerCase().split(/\s+/).filter(w => w.length > 2)
FuzzySearchWords(searchText) ==
    SelectSeq(SplitWhitespace(ToLowerCase(searchText)), IsFuzzyWord)

\* windowStart and windowEnd: half the window on either side of the hint
FuzzyWindowStart(text, hintPos) ==
    Max(0, hintPos - Min(FuzzyWindowSize, Len(text)))
FuzzyWindowEnd(text, hintPos) ==
    Min(H(Len(text)), hintPos + Min(FuzzyWindowSize, Len(text)))

\* The candidate of a slice of the window's words, given how many search
\* words the slice holds and where the slice is found in the window.
FuzzyCandidate(text, searchText, n, windowStart, matched, sliceStart) ==
    [start |-> windowStart + H(sliceStart),
     end |-> Min(H(Len(text)), windowStart + H(sliceStart) + 3 * Len(searchText)),
     confidence |-> matched,
     ok |-> 10 * matched >= 6 * n /\ sliceStart # 0 - 1]

FuzzyCandidateOf(text, searchText, searchWords, windowStart, searchWindow, windowSlice) ==
    FuzzyCandidate(text, searchText, Len(searchWords), windowStart,
                   MatchedWords(searchWords, windowSlice),
                   IndexOf(searchWindow, windowSlice))

IsFuzzyMatch(c) == c.ok

\* The loop over the slices of the window's words, lines 1482-1507
FuzzyCandidates(text, searchText, searchWords, windowStart, searchWindow, words) ==
    SelectSeq([i \in 1..Max(0, Len(words) - Len(searchWords) + 1) |->
                  FuzzyCandidateOf(text, searchText, searchWords, windowStart,
                                   searchWindow,
                                   JoinSpace(Slice(words, i - 1,
                                                   i - 1 + Len(searchWords) * 2)))],
              IsFuzzyMatch)

\* The sort by confidence and nearness to the hint, and the top three
FuzzyBest(matches, n, hintPos) ==
    Slice(SortByKey(matches,
                    [i \in 1..Len(matches) |->
                        n * Abs(matches[i].start - hintPos)
                          - 2000 * matches[i].confidence]),
          0, FuzzyTopMatches)

FuzzyMatchesIn(text, searchText, hintPos, searchWords, searchWindow) ==
    IF Len(searchWords) = 0 THEN <<>>
    ELSE FuzzyBest(FuzzyCandidates(text, searchText, searchWords,
                                   FuzzyWindowStart(text, hintPos), searchWindow,
                                   SplitWhitespace(searchWindow)),
                   Len(searchWords), hintPos)

FindFuzzyMatches(text, searchText, hintPos) ==
    FuzzyMatchesIn(text, searchText, hintPos, FuzzySearchWords(searchText),
                   ToLowerCase(Substring(text, FuzzyWindowStart(text, hintPos),
                                         FuzzyWindowEnd(text, hintPos))))

\* The occurrence closest to the hint, the earliest one on a tie
\* (foundPositions.reduce).
RECURSIVE ClosestMatch(_, _, _)
ClosestMatch(occ, closest, startPos) ==
    IF occ = <<>> THEN closest
    ELSE ClosestMatch(Tail(occ),
                      IF Abs(H(Head(occ)) - startPos) < Abs(H(closest) - startPos)
                      THEN Head(occ) ELSE closest,
                      startPos)

\* A variant with the comparison of the bounds turned around.
HintVerifiesBackwards(text, searchText, startPos, endPos) ==
    /\ startPos >= 0
    /\ endPos <= H(Len(text))
    /\ startPos > endPos
    /\ Substring(text, startPos, endPos) = searchText

\* The test of the hint, lines 1346-1353.
HintVerifies(text, searchText, startPos, endPos) ==
    /\ startPos >= 0
    /\ endPos <= H(Len(text))
    /\ startPos < endPos
    /\ Substring(text, startPos, endPos) = searchText

\* { start, end, found: true } for the occurrence at the index idx
FoundAt(idx, len) == [start |-> H(idx), end |-> H(idx + len), found |-> TRUE]

\* { start, end, found: true } for a match of findWithContext or findFuzzyMatches
FoundMatch(m) == [start |-> m.start, end |-> m.end, found |-> TRUE]

\* findExactTextPosition after the hint did not verify (lines 1355-1402), on
\* the context matches, the exact occurrences and the fuzzy matches.
FindWithoutHint(searchText, startPos, endPos, useContexts, contextMatches, occ, fuzzyMatches) ==
    IF useContexts /\ contextMatches # <<>> THEN FoundMatch(contextMatches[1])
    ELSE IF Len(occ) = 1 THEN FoundAt(occ[1], Len(searchText))
    ELSE IF Len(occ) > 1
    THEN FoundAt(ClosestMatch(occ, occ[1], startPos), Len(searchText))
    ELSE IF fuzzyMatches # <<>> THEN FoundMatch(fuzzyMatches[1])
    ELSE [start |-> startPos, end |-> endPos, found |-> FALSE]

\* findExactTextPosition: the hint, then the contexts, then the only or the
\* closest exact occurrence, then the fuzzy fallback.
FindExactTextPosition(text, searchText, startPos, endPos, contextBefore, contextAfter) ==
    IF HintVerifies(text, searchText, startPos, endPos)
    THEN [start |-> startPos, end |-> endPos, found |-> TRUE]
    ELSE FindWithoutHint(searchText, startPos, endPos,
                         contextBefore # <<>> \/ contextAfter # <<>>,
                         FindWithContext(text, searchText, contextBefore,
                                         contextAfter),
                         Occurrences(text, searchText),
                         FindFuzzyMatches(text, searchText, startPos))

(***************************************************************************)
(* Suggestions.  A suggestion is                                           *)
(*   [id, position: [start, end], original, suggested, contextBefore,      *)
(*    contextAfter];                                                       *)
(* type, explanation and confidence are display fields no algorithm reads. *)
(* An id is [tag, n]: the text before the counter and the counter, so that *)
(* `typo-immediate-17` is [tag |-> "typo-immediate-", n |-> 17].  An id    *)
(* the remote analyzer made up has the tag it was given.                   *)
(***************************************************************************)
NewSuggestion(id, start, end, original, suggested, contextBefore, contextAfter) ==
    [id |-> id, position |-> [start |-> start, end |-> end],
     original |-> original, suggested |-> suggested,
     contextBefore |-> contextBefore, contextAfter |-> contextAfter]

WithPosition(s, start, end) ==
    [s EXCEPT !.position = [start |-> start, end |-> end]]

\* getSuggestionSource: id.startsWith('openai-'), id.startsWith('typo-')
GetSuggestionSource(suggestion) ==
    IF suggestion.id.tag = "openai-" THEN "openai"
    ELSE IF suggestion.id.tag \in {"typo-", "typo-immediate-"} THEN "typo"
    ELSE "other"

\* newStart < existingEnd && newEnd > existingStart
Overlaps(a, b) ==
    a.position.start < b.position.end /\ a.position.end > b.position.start

\* The text at the suggestion's span is its original.
IsStillValid(suggestion, currentText) ==
    Substring(currentText, suggestion.position.start, suggestion.position.end)
        = suggestion.original

\* A variant with the two sources of the test exchanged.
ShouldReplaceSwapped(newSuggestion, existingSuggestion) ==
    ~(GetSuggestionSource(newSuggestion) = "openai"
      /\ GetSuggestionSource(existingSuggestion) = "typo")

\* Whether the new suggestion replaces the existing one it overlaps.
ShouldReplace(newSuggestion, existingSuggestion) ==
    ~(GetSuggestionSource(newSuggestion) = "typo"
      /\ GetSuggestionSource(existingSuggestion) = "openai")

\* A variant that pushes the new suggestion and splices nothing out.
MergeOneKeeping(mergedSuggestions, newSuggestion) ==
    Append(mergedSuggestions, newSuggestion)

\* The forEach body of mergeSuggestionsIntelligently for one new suggestion:
\* splice out the overlapped suggestions it replaces, then push it if it
\* replaced one or no semantic suggestion blocks it.
MergeOne(mergedSuggestions, newSuggestion) ==
    LET Replaced(e) == Overlaps(newSuggestion, e) /\ ShouldReplace(newSuggestion, e)
        Kept(e) == ~Replaced(e)
        overlappingIndices == {i \in 1..Len(mergedSuggestions) :
                                 Replaced(mergedSuggestions[i])}
        remaining == SelectSeq(mergedSuggestions, Kept)
        blocked == \E i \in 1..Len(remaining) :
                      /\ Overlaps(newSuggestion, remaining[i])
                      /\ GetSuggestionSource(newSuggestion) = "typo"
                      /\ GetSuggestionSource(remaining[i]) = "openai"
    IN  IF overlappingIndices # {} \/ ~blocked
        THEN Append(remaining, newSuggestion)
        ELSE remaining

RECURSIVE MergeAll(_, _)
MergeAll(mergedSuggestions, newSuggestions) ==
    IF newSuggestions = <<>> THEN mergedSuggestions
    ELSE MergeAll(MergeOne(mergedSuggestions, Head(newSuggestions)),
                  Tail(newSuggestions))

\* A variant that leaves the list in the order the merge built it.
SortByStartSkipped(list) == list

\* list.sort((a, b) => a.position.start - b.position.start)
SortByStart(list) ==
    SortByKey(list, [i \in 1..Len(list) |-> list[i].position.start])

\* mergeSuggestionsIntelligently
MergeSuggestionsIntelligently(existingSuggestions, newSuggestions, currentText) ==
    LET StillValid(e) == IsStillValid(e, currentText)
        validExistingSuggestions == SelectSeq(existingSuggestions, StillValid)
    IN  SortByStart(MergeAll(validExistingSuggestions, newSuggestions))

(***************************************************************************)
(* TextDiffer and SuggestionRepositioner                                   *)
(***************************************************************************)
\* handleContentEditable, lines 568-580: the first index at which the texts
\* differ; when the loop leaves changeStart at 0 and the texts differ, the
\* length of the shorter text.  An integer, not an offset.
ChangeStart(oldValue, newValue) ==
    LET minLength == Min(Len(oldValue), Len(newValue))
        diffs == {i \in 0..(minLength - 1) : oldValue[i + 1] # newValue[i + 1]}
        first == IF diffs = {} THEN 0
                 ELSE CHOOSE i \in diffs : \A j \in diffs : i <= j
    IN  IF first = 0 /\ oldValue # newValue THEN minLength ELSE first

\* findExactTextPosition on a suggestion
Locate(text, s) ==
    FindExactTextPosition(text, s.original, s.position.start, s.position.end,
                          s.contextBefore, s.contextAfter)

\* The first map of updateSuggestionPositions: shift, drop (<<>>) or keep.
CoarseShift(s, changeStart, lengthDifference) ==
    IF s.position.start >= H(changeStart)
    THEN <<WithPosition(s, s.position.start + H(lengthDifference),
                           s.position.end + H(lengthDifference))>>
    ELSE IF s.position.end > H(changeStart) THEN <<>>
    ELSE <<s>>

\* The second map: re-verify against the new text, drop what is not found.
Relocate(s, newText) ==
    LET exactPosition == Locate(newText, s)
    IN  IF exactPosition.found
        THEN <<WithPosition(s, exactPosition.start, exactPosition.end)>>
        ELSE <<>>

\* Array.prototype.filter(s => s !== null) after a map whose results are
\* <<>> (null) or <<x>>.
RECURSIVE Flatten(_)
Flatten(lists) ==
    IF lists = <<>> THEN <<>> ELSE Head(lists) \o Flatten(Tail(lists))

\* The list setSuggestions receives in updateSuggestionPositions.
UpdatedSuggestions(list, oldText, newText, changeStart) ==
    LET lengthDifference == Len(newText) - Len(oldText)
        shifted == Flatten([i \in 1..Len(list) |->
                              CoarseShift(list[i], changeStart, lengthDifference)])
    IN  Flatten([i \in 1..Len(shifted) |-> Relocate(shifted[i], newText)])

HasId(list, id) == \E i \in 1..Len(list) : list[i].id = id

\* Array.prototype.find(s => s.id === id), the list holding such an element
FindById(list, id) ==
    list[CHOOSE i \in 1..Len(list) :
            list[i].id = id /\ \A j \in 1..(i - 1) : list[j].id # id]

\* A variant that leaves the selection as it was.
UpdatedSelectionKept(selected, updatedSuggestions) == selected

\* The selection after updateSuggestionPositions (lines 1618-1636).  A
\* selection is <<>> (null) or <<suggestion>>.
UpdatedSelection(selected, updatedSuggestions) ==
    IF selected = <<>> THEN selected
    ELSE IF ~HasId(updatedSuggestions, selected[1].id) THEN <<>>
    ELSE <<FindById(updatedSuggestions, selected[1].id)>>

(***************************************************************************)
(* The dictionary pass: checkIfWordCompleted, performImmediateSpellCheck   *)
(* and their helpers.  The dictionary (Typo.js and its data files) is      *)
(* external: DictionaryCorrections is the sample of it the model uses, the *)
(* misspelled words it knows and the first correction it offers for each.  *)
(***************************************************************************)
DictionaryCorrections ==
    {<<<<"T", "e", "h">>, <<"T", "h", "e">>>>,
     <<<<"t", "e", "h">>, <<"t", "h", "e">>>>,
     <<<<"w", "i", "c", "h">>, <<"w", "h", "i", "c", "h">>>>}

\* !dictionary.check(word)
IsMisspelled(word) == \E c \in DictionaryCorrections : c[1] = word
\* dictionary.suggest(word, 2)[0]
FirstCorrection(word) == (CHOOSE c \in DictionaryCorrections : c[1] = word)[2]

CommonContractions ==
    {<<"t">>, <<"r", "e">>, <<"v", "e">>, <<"l", "l">>, <<"d">>, <<"s">>, <<"m">>,
     <<"d", "o", "n", "'", "t">>, <<"w", "o", "n", "'", "t">>,
     <<"c", "a", "n", "'", "t">>, <<"s", "h", "o", "u", "l", "d", "n", "'", "t">>,
     <<"w", "o", "u", "l", "d", "n", "'", "t">>,
     <<"c", "o", "u", "l", "d", "n", "'", "t">>, <<"d", "i", "d", "n", "'", "t">>,
     <<"h", "a", "v", "e", "n", "'", "t">>, <<"h", "a", "s", "n", "'", "t">>,
     <<"h", "a", "d", "n", "'", "t">>, <<"i", "s", "n", "'", "t">>,
     <<"a", "r", "e", "n", "'", "t">>, <<"w", "a", "s", "n", "'", "t">>,
     <<"w", "e", "r", "e", "n", "'", "t">>, <<"i", "'", "m">>,
     <<"y", "o", "u", "'", "r", "e">>, <<"h", "e", "'", "s">>,
     <<"s", "h", "e", "'", "s">>, <<"i", "t", "'", "s">>, <<"w", "e", "'", "r", "e">>,
     <<"t", "h", "e", "y", "'", "r", "e">>, <<"i", "'", "v", "e">>,
     <<"y", "o", "u", "'", "v", "e">>, <<"w", "e", "'", "v", "e">>,
     <<"t", "h", "e", "y", "'", "v", "e">>, <<"i", "'", "l", "l">>,
     <<"y", "o", "u", "'", "l", "l">>, <<"h", "e", "'", "l", "l">>,
     <<"s", "h", "e", "'", "l", "l">>, <<"i", "t", "'", "l", "l">>,
     <<"w", "e", "'", "l", "l">>, <<"t", "h", "e", "y", "'", "l", "l">>,
     <<"i", "'", "d">>, <<"y", "o", "u", "'", "d">>, <<"h", "e", "'", "d">>,
     <<"s", "h", "e", "'", "d">>, <<"w", "e", "'", "d">>,
     <<"t", "h", "e", "y", "'", "d">>}

\* isCommonContraction
IsCommonContraction(word) == ToLowerCase(word) \in CommonContractions

WordBoundaryChars == {" ", NL, "\t", ".", ",", "!", "?", ";", ":", ")", "]", "}"}

\* match(/\w+$/): the run of word characters that ends the text
RECURSIVE TrailingWord(_)
TrailingWord(s) ==
    IF s # <<>> /\ IsWordChar(s[Len(s)])
    THEN Append(TrailingWord(SubSeq(s, 1, Len(s) - 1)), s[Len(s)])
    ELSE <<>>

\* A word of at least this many characters before the boundary completes a word.
MinCompletedWordLen == 2

\* checkIfWordCompleted
CheckIfWordCompleted(oldText, newText, changeStart) ==
    /\ Len(newText) >= Len(oldText)
    /\ newText # <<>>
    /\ newText[Len(newText)] \in WordBoundaryChars
    /\ Len(TrailingWord(SubSeq(newText, 1, Len(newText) - 1))) >= MinCompletedWordLen

\* Characters of context kept on each side of a dictionary suggestion.
ContextLength == 20

\* getContextBefore, getContextAfter (position an integer)
GetContextBefore(text, position) ==
    Trim(Substring(text, H(Max(0, position - ContextLength)), H(position)))
GetContextAfter(text, position) ==
    Trim(Substring(text, H(position), H(Min(Len(text), position + ContextLength))))

\* \b between the characters at 0-based indices i - 1 and i
IsWordAt(text, i) == i >= 0 /\ i < Len(text) /\ IsWordChar(text[i + 1])
WordBoundary(text, i) == IsWordAt(text, i - 1) # IsWordAt(text, i)

\* findWordOccurrences: the matches of /\bword\b/gi, left to right, each
\* search starting where the last match ended.
FindWordOccurrences(text, word) ==
    LET lower == ToLowerCase(text)
        pat == ToLowerCase(word)
        MatchAt(i) == /\ OccursAt(lower, pat, i)
                      /\ WordBoundary(text, i)
                      /\ WordBoundary(text, i + Len(pat))
        RECURSIVE Scan(_)
        Scan(from) ==
            IF \A i \in from..Len(text) : ~MatchAt(i) THEN <<>>
            ELSE LET m == CHOOSE i \in from..Len(text) :
                             MatchAt(i) /\ \A j \in from..(i - 1) : ~MatchAt(j)
                 IN  <<[start |-> m, end |-> m + Len(pat)]>> \o Scan(m + Len(pat))
    IN  Scan(0)

\* word.replace(/[^\w'-]/g, '')
IsCleanChar(c) == IsWordChar(c) \/ c = "'" \/ c = "-"
CleanWord(word) == SelectSeq(word, IsCleanChar)

\* The immediate check looks at this many words at the end of the text.
ImmediateLastWords == 3
\* Shorter clean words are not checked.
MinCheckedWordLen == 2

\* The suggestions performImmediateSpellCheck builds for the text, ids
\* counting up from suggestionIdCounter = Date.now().
RECURSIVE ImmediateSuggestions(_, _, _)
ImmediateSuggestions(text, lastWords, suggestionIdCounter) ==
    IF lastWords = <<>> THEN <<>>
    ELSE LET cleanWord == CleanWord(Head(lastWords))
             wordOccurrences == FindWordOccurrences(text, cleanWord)
             lastOccurrence == wordOccurrences[Len(wordOccurrences)]
             made == /\ Len(cleanWord) >= MinCheckedWordLen
                     /\ ~IsCommonContraction(cleanWord)
                     /\ IsMisspelled(cleanWord)
                     /\ wordOccurrences # <<>>
         IN  IF made
             THEN <<NewSuggestion([tag |-> "typo-immediate-", n |-> suggestionIdCounter],
                                  H(lastOccurrence.start), H(lastOccurrence.end),
                                  cleanWord, FirstCorrection(cleanWord),
                                  GetContextBefore(text, lastOccurrence.start),
                                  GetContextAfter(text, lastOccurrence.end))>>
                  \o ImmediateSuggestions(text, Tail(lastWords), suggestionIdCounter + 1)
             ELSE ImmediateSuggestions(text, Tail(lastWords), suggestionIdCounter)

NewTypoSuggestions(text, now) ==
    LET words == SplitWhitespace(text)
        lastWords == SubSeq(words, Max(1, Len(words) - ImmediateLastWords + 1), Len(words))
    IN  ImmediateSuggestions(text, lastWords, now)

(***************************************************************************)
(* The sections of the incremental analysis: splitIntoSentences,           *)
(* splitTextIntoAnalysisSections, simpleHash, detectChangedSections,       *)
(* collectCurrentSuggestions.  Section indices are integers.               *)
(***************************************************************************)
DigitSeq == <<"0", "1", "2", "3", "4", "5", "6", "7", "8", "9">>
IndexIn(seq, c) == CHOOSE i \in 1..Len(seq) : seq[i] = c

\* String.prototype.charCodeAt of the characters the documents are made of
CharCodeAt(c) ==
    IF IsUpper(c) THEN 64 + IndexIn(UpperChars, c)
    ELSE IF IsLower(c) THEN 96 + IndexIn(LowerChars, c)
    ELSE IF IsDigit(c) THEN 47 + IndexIn(DigitSeq, c)
    ELSE CASE c = " " -> 32
           [] c = NL -> 10
           [] c = "\t" -> 9
           [] c = "!" -> 33
           [] c = "'" -> 39
           [] c = "," -> 44
           [] c = "-" -> 45
           [] c = "." -> 46
           [] c = "?" -> 63
           [] c = "_" -> 95

\* A 32-bit integer is kept as its two 16-bit halves, [hi, lo].
Half == 65536

\* hash = ((hash << 5) - hash) + char; hash = hash & hash: 31 * hash + char
\* modulo 2^32.
HashStep(hash, char) ==
    LET low == 31 * hash.lo + char
        high == 31 * hash.hi + low \div Half
    IN  [hi |-> high % Half, lo |-> low % Half]

\* The hash after the first n characters of the text.
RECURSIVE HashOf(_, _)
HashOf(text, n) ==
    IF n = 0 THEN [hi |-> 0, lo |-> 0]
    ELSE LET hash == HashOf(text, n - 1)
         IN  HashStep(hash, CharCodeAt(text[n]))

\* Math.abs of the signed reading of the 32 bits
AbsInt32(hash) ==
    IF hash.hi < Half \div 2 THEN hash
    ELSE [hi |-> (Half - 1 - hash.hi + (IF hash.lo = 0 THEN 1 ELSE 0)) % Half,
          lo |-> (Half - hash.lo) % Half]

\* simpleHash: Math.abs(hash).toString(36), here the number itself.
SimpleHash(text) == AbsInt32(HashOf(text, Len(text)))

\* The end of the match of /\n\s*\n/ that starts at the 1-based index i: the
\* last line feed of the run of white space that starts there, 0 when the
\* run holds no second line feed.
SeparatorEnd(text, i) ==
    LET ends == {j \in (i + 1)..Len(text) :
                    /\ text[j] = NL
                    /\ \A k \in i..j : IsSpace(text[k])}
    IN  IF text[i] # NL \/ ends = {} THEN 0
        ELSE CHOOSE j \in ends : \A k \in ends : k <= j

\* text.split(/\n\s*\n/)
RECURSIVE SplitParagraphsFrom(_, _, _)
SplitParagraphsFrom(text, i, pieceStart) ==
    LET starts == {k \in i..Len(text) : SeparatorEnd(text, k) # 0}
        next == CHOOSE k \in starts : \A j \in starts : k <= j
    IN  IF starts = {} THEN <<SubSeq(text, pieceStart, Len(text))>>
        ELSE <<SubSeq(text, pieceStart, next - 1)>>
             \o SplitParagraphsFrom(text, SeparatorEnd(text, next) + 1,
                                    SeparatorEnd(text, next) + 1)

SplitParagraphs(text) == SplitParagraphsFrom(text, 1, 1)

IsSentenceEnder(c) == c \in {".", "!", "?"}

\* An abbreviation is suspected in a candidate sentence shorter than this.
AbbreviationLen == 10

\* splitIntoSentences from the 0-based index from on, lastIndex being where
\* the sentence under way started and i the start of the next match of
\* /[.!?]+/.
RECURSIVE SentencesFrom(_, _, _)
SentencesFrom(text, from, lastIndex) ==
    IF \A k \in (from + 1)..Len(text) : ~IsSentenceEnder(text[k])
    THEN LET remaining == Trim(SubSeq(text, lastIndex + 1, Len(text)))
         IN  IF remaining # <<>> THEN <<remaining>> ELSE <<>>
    ELSE LET i == CHOOSE k \in from..(Len(text) - 1) :
                     /\ IsSentenceEnder(text[k + 1])
                     /\ \A j \in (from + 1)..k : ~IsSentenceEnder(text[j])
             ends == {e \in (i + 1)..Len(text) :
                        \A k \in (i + 1)..e : IsSentenceEnder(text[k])}
             endIndex == CHOOSE e \in ends : \A k \in ends : k <= e
             potentialSentence == Trim(SubSeq(text, lastIndex + 1, endIndex))
             hasNext == endIndex < Len(text)
             hasPrev == i > 0
             isLikelyAbbreviation == /\ hasPrev
                                     /\ IsUpper(text[i])
                                     /\ Len(potentialSentence) < AbbreviationLen
             isDecimal == /\ hasPrev
                          /\ IsDigit(text[i])
                          /\ hasNext
                          /\ IsDigit(text[endIndex + 1])
             ends_ == /\ ~isLikelyAbbreviation
                      /\ ~isDecimal
                      /\ \/ ~hasNext
                         \/ IsSpace(text[endIndex + 1])
                         \/ IsUpper(text[endIndex + 1])
         IN  IF ends_
             THEN (IF potentialSentence # <<>> THEN <<potentialSentence>> ELSE <<>>)
                  \o SentencesFrom(text, endIndex, endIndex)
             ELSE SentencesFrom(text, endIndex, lastIndex)

SplitIntoSentences(text) ==
    IF SentencesFrom(text, 0, 0) # <<>> THEN SentencesFrom(text, 0, 0) ELSE <<text>>

\* A paragraph shorter than this is one section.
ParagraphSectionLen == 200
\* A sentence shorter than this is no section.
MinSentenceLen == 10

NewSection(content, startIndex) ==
    [hash |-> SimpleHash(Trim(content)), content |-> content,
     startIndex |-> startIndex, endIndex |-> startIndex + Len(content)]

\* The sections of the sentences of a long paragraph, the loop of lines
\* 2869-2889.
RECURSIVE SentenceSections(_, _, _, _)
SentenceSections(paragraph, paragraphStart, sentences, sentenceStartInParagraph) ==
    IF sentences = <<>> THEN <<>>
    ELSE LET sentence == Head(sentences)
             sentenceStart == IndexOfFrom(paragraph, sentence, sentenceStartInParagraph)
         IN  IF Len(Trim(sentence)) < MinSentenceLen
             THEN SentenceSections(paragraph, paragraphStart, Tail(sentences),
                                   sentenceStartInParagraph + Len(sentence))
             ELSE <<NewSection(sentence, paragraphStart + sentenceStart)>>
                  \o SentenceSections(paragraph, paragraphStart, Tail(sentences),
                                      sentenceStart + Len(sentence))

\* The loop over the paragraphs, lines 2845-2892.
RECURSIVE ParagraphSections(_, _, _)
ParagraphSections(text, paragraphs, currentIndex) ==
    IF paragraphs = <<>> THEN <<>>
    ELSE LET paragraph == Head(paragraphs)
             paragraphStart == IndexOfFrom(text, paragraph, currentIndex)
         IN  IF Trim(paragraph) = <<>>
             THEN ParagraphSections(text, Tail(paragraphs),
                                    currentIndex + Len(paragraph) + 2)
             ELSE (IF Len(paragraph) < ParagraphSectionLen
                   THEN <<NewSection(paragraph, paragraphStart)>>
                   ELSE SentenceSections(paragraph, paragraphStart,
                                         SplitIntoSentences(paragraph), 0))
                  \o ParagraphSections(text, Tail(paragraphs),
                                       paragraphStart + Len(paragraph) + 2)

\* splitTextIntoAnalysisSections
SplitTextIntoAnalysisSections(text) ==
    LET sections == ParagraphSections(text, SplitParagraphs(text), 0)
    IN  IF sections = <<>> THEN <<NewSection(text, 0)>> ELSE sections

HashesOf(sections) == {sections[i].hash : i \in 1..Len(sections)}

\* A variant that takes a section for new when no previous section has its
\* hash at its place.
DetectMovedSections(currentSections, previousSections) ==
    LET IsNew(section) ==
            ~ \E i \in 1..Len(previousSections) :
                 /\ previousSections[i].hash = section.hash
                 /\ previousSections[i].startIndex = section.startIndex
    IN  SelectSeq(currentSections, IsNew)

\* detectChangedSections
DetectChangedSections(currentSections, previousSections) ==
    LET previousHashes == HashesOf(previousSections)
        IsNew(section) == section.hash \notin previousHashes
    IN  SelectSeq(currentSections, IsNew)

\* The elements of the list in the order they first occur: [...new Set(list)]
Unique(list) ==
    LET keep == {i \in 1..Len(list) : \A j \in 1..(i - 1) : list[j] # list[i]}
    IN  [k \in 1..Cardinality(keep) |->
            list[CHOOSE i \in keep : Cardinality({j \in keep : j < i}) = k - 1]]

IsLetter(c) == IsUpper(c) \/ IsLower(c)
IsJoiner(c) == c \in {"-", "'"}

\* Where a match of /\b[a-zA-Z]+(?:[-'][a-zA-Z]+)*\b/ that starts at the
\* 0-based index i may end: runs of letters joined by single hyphens or
\* apostrophes, a word boundary on either side.
WordMatchEnds(text, i) ==
    {e \in (i + 1)..Len(text) :
        /\ \A k \in (i + 1)..e : IsLetter(text[k]) \/ IsJoiner(text[k])
        /\ IsLetter(text[i + 1])
        /\ IsLetter(text[e])
        /\ \A k \in (i + 1)..(e - 1) : ~(IsJoiner(text[k]) /\ IsJoiner(text[k + 1]))
        /\ WordBoundary(text, i)
        /\ WordBoundary(text, e)}

\* text.match(wordPattern): the matches left to right, each the longest at
\* its start (the quantifiers are greedy), the search resuming at its end.
WordMatches(text) ==
    LET RECURSIVE Scan(_)
        Scan(from) ==
            IF \A i \in from..(Len(text) - 1) : WordMatchEnds(text, i) = {} THEN <<>>
            ELSE LET m == CHOOSE i \in from..(Len(text) - 1) :
                             /\ WordMatchEnds(text, i) # {}
                             /\ \A j \in from..(i - 1) : WordMatchEnds(text, j) = {}
                     ends == WordMatchEnds(text, m)
                     e == CHOOSE x \in ends : \A y \in ends : y <= x
                 IN  <<SubSeq(text, m + 1, e)>> \o Scan(e)
    IN  Scan(0)

\* String.prototype.split on a one-character separator
RECURSIVE SplitOn(_, _)
SplitOn(s, c) ==
    IF ~Includes(s, <<c>>) THEN <<s>>
    ELSE <<SubSeq(s, 1, IndexOf(s, <<c>>))>>
         \o SplitOn(SubSeq(s, IndexOf(s, <<c>>) + 2, Len(s)), c)

\* The contraction endings extractWordsForSpellCheck does not check.
ContractionEndings ==
    {<<"t">>, <<"r", "e">>, <<"v", "e">>, <<"l", "l">>, <<"d">>, <<"s">>, <<"m">>}

\* A part of a contraction or of a hyphenated word is checked from this length.
MinPartLen == 2

\* The words extractWordsForSpellCheck pushes for one match.
WordsOfMatch(match) ==
    LET IsLongPart(part) == Len(part) >= MinPartLen
        parts == SplitOn(match, "'")
        mainPart == parts[1]
        contractionPart == parts[2]
    IN  IF Includes(match, <<"'">>)
        THEN IF Len(parts) = 2
             THEN (IF Len(mainPart) >= MinPartLen THEN <<mainPart>> ELSE <<>>)
                  \o (IF /\ Len(contractionPart) >= MinPartLen
                         /\ ToLowerCase(contractionPart) \notin ContractionEndings
                      THEN <<contractionPart>> ELSE <<>>)
             ELSE <<>>
        ELSE IF Includes(match, <<"-">>)
        THEN SelectSeq(SplitOn(match, "-"), IsLongPart)
        ELSE <<match>>

\* extractWordsForSpellCheck
ExtractWordsForSpellCheck(text) ==
    LET matches == WordMatches(text)
    IN  Flatten([i \in 1..Len(matches) |-> WordsOfMatch(matches[i])])

\* A shorter word of a changed section is not checked.
MinSectionWordLen == 2

\* The test a word of a changed section passes to be reported (lines
\* 1068-1073): long enough, no contraction, and corrected by the dictionary.
IsFlaggedWord(word) ==
    /\ Len(word) >= MinSectionWordLen
    /\ ~IsCommonContraction(word)
    /\ IsMisspelled(word)

\* The occurrences of a word of the section, in document coordinates
\* (lines 1077-1080).
FindingsAt(section, word, wordOccurrences) ==
    [k \in 1..Len(wordOccurrences) |->
        [word |-> word,
         docStart |-> section.startIndex + wordOccurrences[k].start,
         docEnd |-> section.startIndex + wordOccurrences[k].end]]

FindingsOf(section, words) ==
    Flatten([i \in 1..Len(words) |->
                FindingsAt(section, words[i],
                           FindWordOccurrences(section.content, words[i]))])

\* The dictionary pass of analyzeTextAutomatic over one changed section
\* (lines 1064-1098): for each of its words the dictionary corrects, every
\* occurrence in the section.
SectionFindings(section) ==
    FindingsOf(section,
               SelectSeq(Unique(ExtractWordsForSpellCheck(section.content)),
                         IsFlaggedWord))

\* The suggestion of lines 1082-1092
TypoSuggestion(text, finding, n) ==
    NewSuggestion([tag |-> "typo-", n |-> n],
                  H(finding.docStart), H(finding.docEnd),
                  finding.word, FirstCorrection(finding.word),
                  GetContextBefore(text, finding.docStart),
                  GetContextAfter(text, finding.docEnd))

TypoSuggestionsOf(text, findings, suggestionIdCounter) ==
    [k \in 1..Len(findings) |->
        TypoSuggestion(text, findings[k], suggestionIdCounter + k - 1)]

\* newTypoSuggestions after the loop over the changed sections, ids counting
\* up from suggestionIdCounter.
SectionTypoSuggestions(changedSections, text, suggestionIdCounter) ==
    TypoSuggestionsOf(text,
                      Flatten([i \in 1..Len(changedSections) |->
                                  SectionFindings(changedSections[i])]),
                      suggestionIdCounter)

\* Map.prototype.has, get and set on the cache
CacheHas(map, hash) == \E entry \in map : entry[1] = hash
CacheGet(map, hash) == (CHOOSE entry \in map : entry[1] = hash)[2]
CacheSet(map, hash, list) == {entry \in map : entry[1] # hash} \cup {<<hash, list>>}

\* The cache after lines 1102-1107: each changed section's hash is set to the
\* new suggestions that lie within the section.
RECURSIVE StoreSections(_, _, _)
StoreSections(map, changedSections, newTypoSuggestions) ==
    IF changedSections = <<>> THEN map
    ELSE LET section == Head(changedSections)
             Within(s) == /\ s.position.start >= H(section.startIndex)
                          /\ s.position.end <= H(section.endIndex)
             sectionSuggestionsList == SelectSeq(newTypoSuggestions, Within)
         IN  StoreSections(CacheSet(map, section.hash, sectionSuggestionsList),
                           Tail(changedSections), newTypoSuggestions)

\* collectCurrentSuggestions
CollectCurrentSuggestions(currentSections, newSuggestions, sectionSuggestionsMap) ==
    LET Cached(section) ==
            IF CacheHas(sectionSuggestionsMap, section.hash)
            THEN CacheGet(sectionSuggestionsMap, section.hash)
            ELSE <<>>
        allSuggestions ==
            Flatten([i \in 1..Len(currentSections) |-> Cached(currentSections[i])])
                \o newSuggestions
        first == {i \in 1..Len(allSuggestions) :
                     \A j \in 1..(i - 1) : allSuggestions[j].id # allSuggestions[i].id}
        uniqueSuggestions ==
            [k \in 1..Cardinality(first) |->
                allSuggestions[CHOOSE i \in first :
                                  Cardinality({j \in first : j < i}) = k - 1]]
    IN  SortByStart(uniqueSuggestions)

\* changedSections.map(s => s.content).join('\n\n')
RECURSIVE CombinedText(_)
CombinedText(changedSections) ==
    IF changedSections = <<>> THEN <<>>
    ELSE IF Len(changedSections) = 1 THEN changedSections[1].content
    ELSE changedSections[1].content \o <<NL, NL>> \o CombinedText(Tail(changedSections))

\* The loop of analyzeChangedSectionsWithOpenAI, lines 2999-3024: what the
\* analyzer sent within a section's stretch of the combined text is moved to
\* document coordinates and kept when the full text holds its original there.
RECURSIVE MappedSuggestions(_, _, _, _, _)
MappedSuggestions(changedSections, fullText, received, combinedTextOffset, suggestionIdCounter) ==
    IF changedSections = <<>> THEN <<>>
    ELSE LET section == Head(changedSections)
             InSection(s) ==
                 /\ s.position.start >= H(combinedTextOffset)
                 /\ s.position.end <= H(combinedTextOffset + Len(section.content))
             Moved(s) ==
                 WithPosition(s,
                     H(section.startIndex) + (s.position.start - H(combinedTextOffset)),
                     H(section.startIndex) + (s.position.end - H(combinedTextOffset)))
             Verified(s) ==
                 Substring(fullText, Moved(s).position.start, Moved(s).position.end)
                     = s.original
             kept == SelectSeq(SelectSeq(received, InSection), Verified)
             mapped == [k \in 1..Len(kept) |->
                          [Moved(kept[k]) EXCEPT
                              !.id = [tag |-> "openai-",
                                      n |-> suggestionIdCounter + k - 1]]]
         IN  mapped \o MappedSuggestions(Tail(changedSections), fullText, received,
                                         combinedTextOffset + Len(section.content) + 2,
                                         suggestionIdCounter + Len(mapped))

(***************************************************************************)
(* The editor                                                              *)
(***************************************************************************)
VARIABLES
    value,                      \* the text buffer
    previousText,               \* the text the last input event left
    suggestions,                \* the live suggestion set, a list
    selectedSuggestion,         \* <<>> (null) or <<suggestion>>
    typingTimeout,              \* the pending 2 s timers, each with its closure
    debouncedImmediateAnalysis, \* <<>> or <<text of the pending 150 ms timer>>
    spellChecks,                \* performImmediateSpellCheck calls in flight
    analyses,                   \* analyzeTextManual calls awaiting /api/analyze
    analyzing,                  \* the analyzing flag
    previousTextSections,       \* the partition of the last incremental pass
    sectionSuggestions,         \* hash -> suggestions, as a set of <<hash, list>>
    automaticAnalyses,          \* analyzeTextAutomatic calls in flight
    clock,                      \* the last Date.now() read, from the first read on
    edits,                      \* input events so far
    requests,                   \* analyses started so far
    toast,                      \* the title of the toast raised last
    autoAnalysisCompleted,      \* the ref of the auto-analyze effect
    autoAnalysisTimeout,        \* <<>> or <<closure of the effect's 500 ms timer>>
    args,                       \* the arguments of a function under test
    result                      \* and what it returned

vars == <<value, previousText, suggestions, selectedSuggestion, typingTimeout,
          debouncedImmediateAnalysis, spellChecks, analyses, analyzing,
          previousTextSections, sectionSuggestions, automaticAnalyses, clock,
          edits, requests, toast, autoAnalysisCompleted, autoAnalysisTimeout,
          args, result>>

editorVars == <<value, previousText, suggestions, selectedSuggestion, typingTimeout,
                debouncedImmediateAnalysis, spellChecks, analyses, analyzing,
                clock, edits, requests, toast, autoAnalysisCompleted,
                autoAnalysisTimeout>>
mountVars == <<autoAnalysisCompleted, autoAnalysisTimeout>>
schedulerVars == <<previousTextSections, sectionSuggestions, automaticAnalyses>>
harnessVars == <<args, result>>

\* Bounds of the model
MaxEdits == 2
MaxEditPos == 1
MaxDelete == 0
MaxRequests == 1
MaxSpellChecks == 1
MaxClock == 1

\* analyzeTypoJsImmediate returns at once on a shorter text
MinImmediateLen == 5
\* analyzeTextManual clears the set and returns on a shorter text
MinManualLen == 20

\* "Teh cat sat"
TehCatSat ==
    <<"T", "e", "h", " ", "c", "a", "t", " ", "s", "a", "t">>
\* "Teh cat saw teh dog."
TehCatSawTehDog ==
    <<"T", "e", "h", " ", "c", "a", "t", " ", "s", "a", "w", " ", "t", "e", "h", " ",
      "d", "o", "g", ".">>

\* The documents the editor is opened on.
InitialContents == {TehCatSat, TehCatSawTehDog}
\* What one input event inserts.
Inserts == {<<>>, <<"t">>, <<".">>}

NoArgs == [f |-> "none"]
\* No call has returned: result is <<>>, or <<what the call returned>>.
NoResult == <<>>

NoToast == "none"

\* The auto-analyze effect analyzes a content whose trimmed length is more
\* than this.
MinAutoAnalysisLen == 10

\* The editor on one of the documents `contents`, once the analysis of the
\* opening has run and was answered with no suggestion.
Opened(contents) ==
    /\ autoAnalysisCompleted = TRUE
    /\ autoAnalysisTimeout = <<>>
    /\ value \in contents
    /\ previousText = value
    /\ suggestions = <<>>
    /\ selectedSuggestion = <<>>
    /\ typingTimeout = <<>>
    /\ debouncedImmediateAnalysis = <<>>
    /\ spellChecks = <<>>
    /\ analyses = <<>>
    /\ analyzing = FALSE
    /\ previousTextSections = <<>>
    /\ sectionSuggestions = {}
    /\ automaticAnalyses = <<>>
    /\ clock = 0 - 1
    /\ edits = 0
    /\ requests = 0
    /\ toast = NoToast
    /\ args = NoArgs
    /\ result = NoResult

Init == Opened(InitialContents)

\* The positions an input event of the model changes the text at.
EditPositions(text) == {p \in 0..Len(text) : p <= MaxEditPos \/ p = Len(text)}

\* The text after del characters at offset p are replaced by ins.
Splice(text, p, del, ins) ==
    SubSeq(text, 1, p) \o ins \o SubSeq(text, p + del + 1, Len(text))

\* A variant that schedules the analysis whether or not it has been scheduled
\* for the document.
AutoAnalyzeEffectRepeating(newContent, newSuggestions) ==
    IF newContent = value
    THEN UNCHANGED mountVars
    ELSE IF /\ Len(Trim(newContent)) > MinAutoAnalysisLen
            /\ ~analyzing
    THEN /\ autoAnalysisCompleted' = TRUE
         /\ autoAnalysisTimeout' = <<[text |-> newContent,
                                      suggestions |-> newSuggestions]>>
    ELSE /\ autoAnalysisTimeout' = <<>>
         /\ UNCHANGED autoAnalysisCompleted

\* The auto-analyze effect (lines 140-175) after a handler reported
\* newContent to the parent, which hands it back as the content prop: when
\* the content changed, the cleanup clears the 500 ms timer of the last run,
\* and the first content of enough text met while no analysis runs is marked
\* and analyzeTextManual(content) is scheduled, in a closure of the render
\* the handler's updates led to.
AutoAnalyzeEffect(newContent, newSuggestions) ==
    IF newContent = value
    THEN UNCHANGED mountVars
    ELSE IF /\ Len(Trim(newContent)) > MinAutoAnalysisLen
            /\ ~autoAnalysisCompleted
            /\ ~analyzing
    THEN /\ autoAnalysisCompleted' = TRUE
         /\ autoAnalysisTimeout' = <<[text |-> newContent,
                                      suggestions |-> newSuggestions]>>
    ELSE /\ autoAnalysisTimeout' = <<>>
         /\ UNCHANGED autoAnalysisCompleted

\* A variant that clears the timer of the render before the last one.
ClearTimeoutStale(pending, timeout) ==
    LET Other(t) == t.id # timeout - 1
    IN  SelectSeq(pending, Other)

\* clearTimeout(typingTimeout): the typingTimeout state holds the timer the
\* last input event set, and a timer is named by the number of the input
\* event that set it; clearing a timer that has fired does nothing.
ClearTimeout(pending, timeout) ==
    LET Other(t) == t.id # timeout
    IN  SelectSeq(pending, Other)

\* handleContentEditable on an input event that left newValue in the editor:
\* the diff, updateSuggestionPositions on the suggestions and the selection,
\* the empty-text reset, a word completion arming the 150 ms timer, and the
\* 2 s timer replaced by one that closes over this render's state.
HandleContentEditableOn(p, del, ins) ==
    LET oldValue == previousText
        newValue == Splice(value, p, del, ins)
        changeStart == ChangeStart(oldValue, newValue)
        updated == UpdatedSuggestions(suggestions, oldValue, newValue, changeStart)
    IN  /\ newValue # oldValue
        /\ value' = newValue
        /\ previousText' = newValue
        /\ suggestions' = IF Trim(newValue) = <<>> THEN <<>>
                          ELSE IF suggestions # <<>> THEN updated
                          ELSE suggestions
        /\ selectedSuggestion' = IF suggestions # <<>>
                                 THEN UpdatedSelection(selectedSuggestion, updated)
                                 ELSE selectedSuggestion
        /\ debouncedImmediateAnalysis' =
              IF /\ CheckIfWordCompleted(oldValue, newValue, changeStart)
                 /\ Len(newValue) >= MinImmediateLen
              THEN <<newValue>>
              ELSE debouncedImmediateAnalysis
        /\ typingTimeout' = Append(ClearTimeout(typingTimeout, edits),
                                   [id |-> edits + 1,
                                    callback |-> "analyzeOpenAIDelayed",
                                    text |-> newValue,
                                    suggestions |-> suggestions,
                                    selectedSuggestion |-> selectedSuggestion])
        /\ AutoAnalyzeEffect(newValue, suggestions')

\* handleContentEditable on an input event that inserts one of `inserts`.
HandleContentEditableWith(inserts) ==
    /\ edits < MaxEdits
    /\ \E p \in EditPositions(value), del \in 0..MaxDelete, ins \in inserts :
          /\ p + del <= Len(value)
          /\ HandleContentEditableOn(p, del, ins)
    /\ edits' = edits + 1
    /\ UNCHANGED <<spellChecks, analyses, analyzing, clock, requests, toast>>
    /\ UNCHANGED <<schedulerVars, harnessVars>>

HandleContentEditable == HandleContentEditableWith(Inserts)

\* The 150 ms timer of analyzeTypoJsImmediate fires: performImmediateSpellCheck
\* starts on the text the timer closed over and reads Date.now().
ImmediateDebounceFires ==
    /\ debouncedImmediateAnalysis # <<>>
    /\ Len(spellChecks) < MaxSpellChecks
    /\ \E now \in Max(clock, 0)..Min(clock + 1, MaxClock) :
          /\ clock' = now
          /\ spellChecks' = Append(spellChecks,
                                   [text |-> debouncedImmediateAnalysis[1],
                                    suggestionIdCounter |-> now])
    /\ debouncedImmediateAnalysis' = <<>>
    /\ UNCHANGED <<value, previousText, suggestions, selectedSuggestion,
                   typingTimeout, analyses, analyzing, edits, requests, toast>>
    /\ UNCHANGED <<mountVars, schedulerVars, harnessVars>>

RemoveAt(seq, i) == SubSeq(seq, 1, i - 1) \o SubSeq(seq, i + 1, Len(seq))

\* performImmediateSpellCheck finishes: nothing when the dictionary files are
\* not fetched; else the functional update merges what it found into the
\* current set, against the text the check was started on.
ImmediateSpellCheckResolves ==
    /\ \E i \in 1..Len(spellChecks), dictionaryAvailable \in BOOLEAN :
          LET text == spellChecks[i].text
              newTypoSuggestions ==
                  NewTypoSuggestions(text, spellChecks[i].suggestionIdCounter)
          IN  /\ spellChecks' = RemoveAt(spellChecks, i)
              /\ suggestions' =
                    IF dictionaryAvailable /\ newTypoSuggestions # <<>>
                    THEN MergeSuggestionsIntelligently(suggestions, newTypoSuggestions,
                                                       text)
                    ELSE suggestions
    /\ UNCHANGED <<value, previousText, selectedSuggestion, typingTimeout,
                   debouncedImmediateAnalysis, analyses, analyzing, clock, edits,
                   requests, toast>>
    /\ UNCHANGED <<mountVars, schedulerVars, harnessVars>>

\* getContextualWindow: the whole text
GetContextualWindow(text) ==
    [text |-> text, startOffset |-> 0, endOffset |-> Len(text)]

\* cleanupInvalidSuggestions keeps a suggestion that is found and whose text
\* at the found span is its original.
SurvivesCleanup(s, currentText) ==
    LET exactPosition == Locate(currentText, s)
    IN  /\ exactPosition.found
        /\ Substring(currentText, exactPosition.start, exactPosition.end) = s.original

\* The synchronous part of analyzeTextManual called with `text` from a closure
\* whose suggestion list is `closed`: on a short text the set is cleared,
\* else the request is sent.  `pending` is what an earlier setSuggestions of
\* the same handler asked for, `trigger` the caller: the Analyze button
\* ("manual") or analyzeOpenAIDelayed of the 2 s timer ("timer").
StartManualAnalysis(text, closed, pending, trigger) ==
    IF Len(text) < MinManualLen \/ Len(GetContextualWindow(text).text) < MinManualLen
    THEN /\ suggestions' = <<>>
         /\ UNCHANGED <<analyses, analyzing, requests>>
    ELSE /\ suggestions' = pending
         /\ analyses' = Append(analyses, [text |-> text, suggestions |-> closed,
                                          trigger |-> trigger])
         /\ analyzing' = TRUE
         /\ requests' = requests + 1

\* The 2 s timer fires: cleanupInvalidSuggestions(newValue), then
\* analyzeOpenAIDelayed(newValue), both of the render the timer was set in.
TypingTimeoutFiresWithin(maxRequests) ==
    /\ requests < maxRequests
    /\ \E i \in 1..Len(typingTimeout) :
          LET t == typingTimeout[i]
              Survives(s) == SurvivesCleanup(s, t.text)
              validSuggestions == SelectSeq(t.suggestions, Survives)
              removed == Len(validSuggestions) < Len(t.suggestions)
          IN  /\ t.callback = "analyzeOpenAIDelayed"
              /\ StartManualAnalysis(t.text, t.suggestions,
                                     IF removed THEN validSuggestions ELSE suggestions,
                                     "timer")
              /\ selectedSuggestion' =
                    IF /\ removed
                       /\ t.selectedSuggestion # <<>>
                       /\ ~HasId(validSuggestions, t.selectedSuggestion[1].id)
                    THEN <<>>
                    ELSE selectedSuggestion
              /\ typingTimeout' = RemoveAt(typingTimeout, i)
    /\ UNCHANGED <<value, previousText, debouncedImmediateAnalysis, spellChecks,
                   clock, edits, toast>>
    /\ UNCHANGED <<mountVars, schedulerVars, harnessVars>>

TypingTimeoutFires == TypingTimeoutFiresWithin(MaxRequests)

\* The Analyze button: analyzeTextManual(value, cursorPosition).
AnalyzeClick ==
    /\ requests < MaxRequests
    /\ StartManualAnalysis(value, suggestions, suggestions, "manual")
    /\ UNCHANGED <<value, previousText, selectedSuggestion, typingTimeout,
                   debouncedImmediateAnalysis, spellChecks, clock, edits, toast>>
    /\ UNCHANGED <<mountVars, schedulerVars, harnessVars>>

\* The 500 ms timer of the auto-analyze effect fires: analyzeTextManual(content)
\* of the render the effect ran in.
AutoAnalysisTimeoutFires ==
    /\ autoAnalysisTimeout # <<>>
    /\ requests < MaxRequests
    /\ StartManualAnalysis(autoAnalysisTimeout[1].text,
                           autoAnalysisTimeout[1].suggestions, suggestions, "opening")
    /\ autoAnalysisTimeout' = <<>>
    /\ UNCHANGED <<value, previousText, selectedSuggestion, typingTimeout,
                   debouncedImmediateAnalysis, spellChecks, clock, edits, toast,
                   autoAnalysisCompleted>>
    /\ UNCHANGED <<schedulerVars, harnessVars>>

(***************************************************************************)
(* The remote analyzer is external.  What it may answer for a text: an     *)
(* error, no suggestion, or one suggestion: its original one of the words  *)
(* the sample analyzer reports (a substring of the text or, against its    *)
(* contract, not), its position a hint at the start of the text that may   *)
(* or may not verify, its contexts absent or the text around the first     *)
(* occurrence, its id a string of the analyzer's own making.               *)
(***************************************************************************)
ServerSuggested == <<"o", "k">>
ServerId == [tag |-> "id-", n |-> 1]
ServerOriginals == {<<"T", "e", "h">>, <<"t", "e", "h">>}
ServerHintLengths == {0, 3}

ServerContexts(text, original) ==
    LET at == IndexOf(text, original)
    IN  {<<<<>>, <<>>>>}
        \cup (IF at = 0 - 1 THEN {}
              ELSE {<<GetContextBefore(text, at),
                      GetContextAfter(text, at + Len(original))>>})

ServerSuggestions(text) ==
    UNION {{NewSuggestion(ServerId, H(0), H(hintLen), original, ServerSuggested,
                          c[1], c[2]) :
               hintLen \in ServerHintLengths, c \in ServerContexts(text, original)} :
           original \in ServerOriginals}

ServerResponses(text) ==
    {[ok |-> FALSE, suggestions |-> <<>>], [ok |-> TRUE, suggestions |-> <<>>]}
    \cup {[ok |-> TRUE, suggestions |-> <<s>>] : s \in ServerSuggestions(text)}

\* The map and filter of analyzeTextManual, lines 1241-1280: the window
\* offset is added, each suggestion is located in the text of the call, and
\* the ones not found are dropped.
CorrectedSuggestions(text, received) ==
    LET startOffset == GetContextualWindow(text).startOffset
        Adjusted(s) == WithPosition(s, s.position.start + H(startOffset),
                                       s.position.end + H(startOffset))
    IN  Flatten([i \in 1..Len(received) |-> Relocate(Adjusted(received[i]), text)])

\* /api/analyze answers a call of analyzeTextManual: on an error the toast;
\* else the corrected suggestions are merged into the suggestion list of the
\* closure, against the text of the call.  The flag is cleared either way.
AnalysisResolves ==
    /\ \E i \in 1..Len(analyses) :
          \E response \in ServerResponses(analyses[i].text) :
             LET a == analyses[i]
                 merged == MergeSuggestionsIntelligently(
                               a.suggestions,
                               CorrectedSuggestions(a.text, response.suggestions),
                               a.text)
             IN  /\ analyses' = RemoveAt(analyses, i)
                 /\ suggestions' = IF response.ok THEN merged ELSE suggestions
                 /\ toast' = IF response.ok THEN toast ELSE "Analysis failed"
    /\ analyzing' = FALSE
    /\ UNCHANGED <<value, previousText, selectedSuggestion, typingTimeout,
                   debouncedImmediateAnalysis, spellChecks, clock, edits, requests>>
    /\ UNCHANGED <<mountVars, schedulerVars, harnessVars>>

\* handleSuggestionClick: select the suggestion; when findExactTextPosition
\* finds it elsewhere, select and store the corrected one.
HandleSuggestionClick ==
    /\ \E i \in 1..Len(suggestions) :
          LET suggestion == suggestions[i]
              exactPosition == Locate(value, suggestion)
              moved == /\ exactPosition.found
                       /\ \/ exactPosition.start # suggestion.position.start
                          \/ exactPosition.end # suggestion.position.end
              updatedSuggestion ==
                  WithPosition(suggestion, exactPosition.start, exactPosition.end)
          IN  /\ selectedSuggestion' =
                    IF moved THEN <<updatedSuggestion>> ELSE <<suggestion>>
              /\ suggestions' =
                    IF moved
                    THEN [j \in 1..Len(suggestions) |->
                            IF suggestions[j].id = suggestion.id
                            THEN updatedSuggestion ELSE suggestions[j]]
                    ELSE suggestions
    /\ UNCHANGED <<value, previousText, typingTimeout, debouncedImmediateAnalysis,
                   spellChecks, analyses, analyzing, clock, edits, requests, toast>>
    /\ UNCHANGED <<mountVars, schedulerVars, harnessVars>>

\* The map and filter of applySuggestion, lines 1801-1823, on one suggestion
\* of the rest: shifted when it starts at or after the replaced span's end,
\* dropped when it overlaps the span, else kept.
AfterApply(s, exactPosition, lengthDifference) ==
    IF s.position.start >= exactPosition.end
    THEN <<WithPosition(s, s.position.start + H(lengthDifference),
                           s.position.end + H(lengthDifference))>>
    ELSE IF s.position.end > exactPosition.start /\ s.position.start < exactPosition.end
    THEN <<>>
    ELSE <<s>>

\* A variant that inserts the suggested text at the span's start and removes
\* nothing.
AppliedTextInserting(text, exactPosition, suggested) ==
    Substring(text, 0, exactPosition.start) \o suggested
        \o SubstringFrom(text, exactPosition.start)

\* The text applySuggestion writes.
AppliedText(text, exactPosition, suggested) ==
    Substring(text, 0, exactPosition.start) \o suggested
        \o SubstringFrom(text, exactPosition.end)

\* A variant that writes the suggested text over the remembered span.
ApplyNotFoundWriting ==
    /\ toast' = "Could not apply suggestion"
    /\ value' = AppliedText(value, selectedSuggestion[1].position,
                            selectedSuggestion[1].suggested)
    /\ previousText' = value'
    /\ UNCHANGED <<suggestions, selectedSuggestion, mountVars>>

\* A variant that also gives up the selection.
ApplyNotFoundDeselecting ==
    /\ toast' = "Could not apply suggestion"
    /\ selectedSuggestion' = <<>>
    /\ UNCHANGED <<value, previousText, suggestions, mountVars>>

\* applySuggestion when findExactTextPosition did not find the original
\* (lines 1770-1777): the toast, and return.
ApplyNotFound ==
    /\ toast' = "Could not apply suggestion"
    /\ UNCHANGED <<value, previousText, suggestions, selectedSuggestion, mountVars>>

\* applySuggestion(selectedSuggestion), the Apply button of the panel.
ApplySuggestion ==
    /\ selectedSuggestion # <<>>
    /\ LET suggestion == selectedSuggestion[1]
           exactPosition == Locate(value, suggestion)
           newText == AppliedText(value, exactPosition, suggestion.suggested)
           lengthDifference == Len(suggestion.suggested) - Len(suggestion.original)
           NotApplied(s) == s.id # suggestion.id
           others == SelectSeq(suggestions, NotApplied)
       IN  IF ~exactPosition.found
           THEN ApplyNotFound
           ELSE /\ value' = newText
                /\ previousText' = newText
                /\ suggestions' =
                      Flatten([i \in 1..Len(others) |->
                                 AfterApply(others[i], exactPosition, lengthDifference)])
                /\ selectedSuggestion' = <<>>
                /\ toast' = "Suggestion applied"
                /\ AutoAnalyzeEffect(newText, suggestions')
    /\ UNCHANGED <<typingTimeout, debouncedImmediateAnalysis, spellChecks, analyses,
                   analyzing, clock, edits, requests>>
    /\ UNCHANGED <<schedulerVars, harnessVars>>

\* dismissSuggestion(id), from a card of the list or from the panel.
DismissSuggestion ==
    /\ \E id \in {suggestions[i].id : i \in 1..Len(suggestions)}
                 \cup {selectedSuggestion[i].id : i \in 1..Len(selectedSuggestion)} :
          LET NotDismissed(s) == s.id # id
          IN  /\ suggestions' = SelectSeq(suggestions, NotDismissed)
              /\ selectedSuggestion' =
                    IF selectedSuggestion # <<>> /\ selectedSuggestion[1].id = id
                    THEN <<>> ELSE selectedSuggestion
    /\ UNCHANGED <<value, previousText, typingTimeout, debouncedImmediateAnalysis,
                   spellChecks, analyses, analyzing, clock, edits, requests, toast>>
    /\ UNCHANGED <<mountVars, schedulerVars, harnessVars>>

Next ==
    \/ HandleContentEditable
    \/ ImmediateDebounceFires
    \/ ImmediateSpellCheckResolves
    \/ TypingTimeoutFires
    \/ AnalyzeClick
    \/ AnalysisResolves
    \/ HandleSuggestionClick
    \/ ApplySuggestion
    \/ DismissSuggestion

Spec == Init /\ [][Next]_vars

(***************************************************************************)
(* Typing into a short document: the input events, the 150 ms timer, the   *)
(* dictionary check and the 2 s timer, no click.                           *)
(***************************************************************************)
\* "teh teh"
TehTeh == <<"t", "e", "h", " ", "t", "e", "h">>
\* What one input event inserts: ".", "The "
TypedInserts == {<<".">>, <<"T", "h", "e", " ">>}

InitTyping == Opened({TehTeh})

HandleTyping == HandleContentEditableWith(TypedInserts)

NextTyping ==
    \/ HandleTyping
    \/ ImmediateDebounceFires
    \/ ImmediateSpellCheckResolves
    \/ TypingTimeoutFires

SpecTyping == InitTyping /\ [][NextTyping]_vars

(***************************************************************************)
(* The editor from its mount on a short document: the auto-analyze effect  *)
(* has met no content of more than ten characters yet.                     *)
(***************************************************************************)
\* "wich cats"
WichCats == <<"w", "i", "c", "h", " ", "c", "a", "t", "s">>
\* The same under ten empty lines
PaddedWichCats == [i \in 1..10 |-> NL] \o WichCats

OpeningContents == {WichCats, PaddedWichCats}
OpeningInserts == {<<".">>}

\* The editor mounted on one of the documents `contents`: the first run of
\* the auto-analyze effect, with user and settings present.
Mounted(contents) ==
    /\ value \in contents
    /\ previousText = value
    /\ suggestions = <<>>
    /\ selectedSuggestion = <<>>
    /\ typingTimeout = <<>>
    /\ debouncedImmediateAnalysis = <<>>
    /\ spellChecks = <<>>
    /\ analyses = <<>>
    /\ analyzing = FALSE
    /\ previousTextSections = <<>>
    /\ sectionSuggestions = {}
    /\ automaticAnalyses = <<>>
    /\ clock = 0 - 1
    /\ edits = 0
    /\ requests = 0
    /\ toast = NoToast
    /\ autoAnalysisCompleted = (Len(Trim(value)) > MinAutoAnalysisLen)
    /\ autoAnalysisTimeout =
          IF Len(Trim(value)) > MinAutoAnalysisLen
          THEN <<[text |-> value, suggestions |-> <<>>]>>
          ELSE <<>>
    /\ args = NoArgs
    /\ result = NoResult

InitOpening == Mounted(OpeningContents)

HandleOpeningInput == HandleContentEditableWith(OpeningInserts)

NextOpening ==
    \/ HandleOpeningInput
    \/ ImmediateDebounceFires
    \/ ImmediateSpellCheckResolves
    \/ TypingTimeoutFires
    \/ AutoAnalysisTimeoutFires
    \/ AnalyzeClick
    \/ AnalysisResolves
    \/ HandleSuggestionClick
    \/ ApplySuggestion
    \/ DismissSuggestion

SpecOpening == InitOpening /\ [][NextOpening]_vars

(***************************************************************************)
(* Properties of the editor                                                *)
(***************************************************************************)
\* The suggestions of the live set, as a set.
Live == {suggestions[i] : i \in 1..Len(suggestions)}

\* A step of handleContentEditable.
IsEdit == edits' = edits + 1

\* C1: after any sequence of edits, merges, applies and dismissals, every
\* suggestion s of the live set has
\* value.substring(s.position.start, s.position.end) = s.original.
C1_EverySpanHoldsItsOriginal ==
    \A s \in Live : Substring(value, s.position.start, s.position.end) = s.original

\* C2: every suggestion of the live set has integer offsets with
\* 0 <= start < end <= length of the text buffer.
C2_OffsetsAreIntegersInRange ==
    \A s \in Live :
       /\ IsInteger(s.position.start)
       /\ IsInteger(s.position.end)
       /\ 0 <= s.position.start
       /\ s.position.start < s.position.end
       /\ s.position.end <= H(Len(value))

\* The index of the first character at which a and b disagree, or the length
\* of the shorter one when it is a prefix of the other.
FirstDisagreement(a, b) ==
    LET m == Min(Len(a), Len(b))
        D == {i \in 0..(m - 1) : a[i + 1] # b[i + 1]}
    IN  IF D = {} THEN m ELSE CHOOSE i \in D : \A j \in D : i <= j

\* C3: on every text change the changeStart computed from the old and the
\* new text is the index of their first disagreement, or the length of the
\* shorter when one is a prefix of the other, so that the texts agree before
\* changeStart; the first disagreement may be at index 0.
C3_ChangeStartIsFirstDisagreement ==
    [][IsEdit =>
         LET changeStart == ChangeStart(previousText, value')
         IN  /\ changeStart = FirstDisagreement(previousText, value')
             /\ SubSeq(previousText, 1, changeStart) = SubSeq(value', 1, changeStart)]_vars

\* newText is oldText with k characters inserted at offset p.
IsInsertion(oldText, newText, p, k) ==
    /\ Len(newText) = Len(oldText) + k
    /\ SubSeq(newText, 1, p) = SubSeq(oldText, 1, p)
    /\ SubSeq(newText, p + k + 1, Len(newText)) = SubSeq(oldText, p + 1, Len(oldText))

\* What C5 asks of suggestion s of the set before an insertion of k
\* characters at p, in the set after it.
ShiftedAsSpecified(s, p, k, after) ==
    /\ s.position.start >= H(p) =>
          \E e \in after : e = WithPosition(s, s.position.start + H(k),
                                               s.position.end + H(k))
    /\ s.position.end <= H(p) => s \in after
    /\ (s.position.start < H(p) /\ H(p) < s.position.end) =>
          ~ \E e \in after : e.id = s.id /\ e.original = s.original

\* The step inserts k characters at offset p, and at no other offset: an
\* insertion that fits two offsets ("t" into "Tteh" at 1 or at 2) would ask
\* two different things of a suggestion that lies between them.
InsertsOnlyAt(p, k) ==
    /\ k >= 1
    /\ IsInsertion(value, value', p, k)
    /\ \A q \in 0..Len(value) : IsInsertion(value, value', q, k) => q = p

\* The suggestion holds its original at integer offsets.
HoldsItsOriginal(s, text) ==
    /\ IsInteger(s.position.start)
    /\ IsInteger(s.position.end)
    /\ Substring(text, s.position.start, s.position.end) = s.original

\* C5: for an insertion of k >= 1 characters at offset p, every suggestion
\* with start >= p ends with both bounds increased by k, every suggestion
\* with end <= p keeps its span, and every suggestion with start < p < end
\* is removed.  Stated for the insertions whose offset the two texts
\* determine and for the suggestions that hold their original before the
\* edit.
C5_InsertionShiftsSuggestions ==
    [][IsEdit =>
         \A p \in 0..Len(value) :
            InsertsOnlyAt(p, Len(value') - Len(value)) =>
               \A s \in Live :
                  HoldsItsOriginal(s, value) =>
                     ShiftedAsSpecified(s, p, Len(value') - Len(value),
                         {suggestions'[i] : i \in 1..Len(suggestions')})]_vars

\* "Teh cat sat." and "The cat sat."
TehCatSatPeriod == TehCatSat \o <<".">>
TheCatSatPeriod == <<"T", "h", "e">> \o SubSeq(TehCatSatPeriod, 4, 12)

\* Teh -> The at {0,3}
IsTehToThe(s) ==
    /\ s.original = <<"T", "e", "h">>
    /\ s.suggested = <<"T", "h", "e">>
    /\ s.position = [start |-> H(0), end |-> H(3)]

\* C8: applying a suggestion whose original is located in the buffer puts the
\* suggested text in place of exactly the located span, the text before and
\* after it unchanged, removes the applied suggestion from the set and clears
\* the selection; on "Teh cat sat." with the single suggestion Teh -> The at
\* {0,3} it leaves "The cat sat." and an empty set.
C8_ApplyReplacesLocatedSpan ==
    [][(ApplySuggestion /\ Locate(value, selectedSuggestion[1]).found) =>
         LET s == selectedSuggestion[1]
             located == Locate(value, s)
             from == Trunc(located.start)
             to == Trunc(located.end)
         IN  /\ value' = SubSeq(value, 1, from) \o s.suggested
                           \o SubSeq(value, to + 1, Len(value))
             /\ \A i \in 1..Len(suggestions') : suggestions'[i].id # s.id
             /\ selectedSuggestion' = <<>>
             /\ (/\ value = TehCatSatPeriod
                 /\ suggestions = <<s>>
                 /\ IsTehToThe(s))
                => (value' = TheCatSatPeriod /\ suggestions' = <<>>)]_vars

\* Teh -> The was applied to "Teh cat sat.".
C8_Witness ==
    /\ value = TheCatSatPeriod
    /\ suggestions = <<>>
    /\ selectedSuggestion = <<>>
    /\ toast = "Suggestion applied"
    /\ edits = 1

\* C10: when applySuggestion does not find the suggestion's original in the
\* buffer, an error toast is raised and the buffer, the suggestion set and
\* the selection stay as they are.
C10_ApplyNotFoundChangesNothing ==
    [][(ApplySuggestion /\ ~Locate(value, selectedSuggestion[1]).found) =>
         /\ toast' = "Could not apply suggestion"
         /\ value' = value
         /\ suggestions' = suggestions
         /\ selectedSuggestion' = selectedSuggestion]_vars

\* An apply failed on a selected suggestion that is still in the set.
C10_Witness ==
    /\ toast = "Could not apply suggestion"
    /\ selectedSuggestion # <<>>
    /\ selectedSuggestion[1] \in Live
    /\ ~Locate(value, selectedSuggestion[1]).found

(***************************************************************************)
(* findExactTextPosition and mergeSuggestionsIntelligently on their own:  *)
(* args holds the arguments of one call, result what the call returned.    *)
(***************************************************************************)
\* The editor on a document that has been emptied.
EditorIdle ==
    /\ autoAnalysisCompleted = TRUE
    /\ autoAnalysisTimeout = <<>>
    /\ value = <<>>
    /\ previousText = <<>>
    /\ suggestions = <<>>
    /\ selectedSuggestion = <<>>
    /\ typingTimeout = <<>>
    /\ debouncedImmediateAnalysis = <<>>
    /\ spellChecks = <<>>
    /\ analyses = <<>>
    /\ analyzing = FALSE
    /\ previousTextSections = <<>>
    /\ sectionSuggestions = {}
    /\ automaticAnalyses = <<>>
    /\ clock = 0 - 1
    /\ edits = 0
    /\ requests = 0
    /\ toast = NoToast

\* "I think you you should go."
ThinkYouYou ==
    <<"I", " ", "t", "h", "i", "n", "k", " ", "y", "o", "u", " ", "y", "o", "u",
      " ", "s", "h", "o", "u", "l", "d", " ", "g", "o", ".">>
\* "if you, if you go"
IfYouIfYouGo ==
    <<"i", "f", " ", "y", "o", "u", ",", " ", "i", "f", " ", "y", "o", "u", " ",
      "g", "o">>
\* "if you go, if you stay"
IfYouGoIfYouStay ==
    <<"i", "f", " ", "y", "o", "u", " ", "g", "o", ",", " ", "i", "f", " ", "y",
      "o", "u", " ", "s", "t", "a", "y">>
You == <<"y", "o", "u">>

LocateTexts == {ThinkYouYou, IfYouIfYouGo, IfYouGoIfYouStay}
\* The hints start at one of the first characters of the text and are as long
\* as the original, or one longer.
MaxHintStart == 12
Think == <<"t", "h", "i", "n", "k">>
IfSpace == <<"i", "f", " ">>
If == <<"i", "f">>
YouSpace == <<"y", "o", "u", " ">>
Should == <<"s", "h", "o", "u", "l", "d">>
SpaceShould == <<" ", "s", "h", "o", "u", "l", "d">>
SpaceShouldGo == <<" ", "s", "h", "o", "u", "l", "d", " ", "g", "o", ".">>
SpaceGo == <<" ", "g", "o">>
Stay == <<"s", "t", "a", "y">>
LocateContextsBefore == {<<>>, <<" ">>, Think, IfSpace, If, YouSpace}
LocateContextsAfter == {<<>>, Should, SpaceShould, SpaceShouldGo, SpaceGo, Stay}

LocateInputs ==
    {[f |-> "findExactTextPosition", text |-> text, searchText |-> You,
      startPos |-> H(startPos), endPos |-> H(startPos + len),
      contextBefore |-> contextBefore, contextAfter |-> contextAfter] :
        text \in LocateTexts, startPos \in 0..MaxHintStart,
        len \in {Len(You), Len(You) + 1},
        contextBefore \in LocateContextsBefore, contextAfter \in LocateContextsAfter}

InitLocate ==
    /\ EditorIdle
    /\ args \in LocateInputs
    /\ result = NoResult

CallFindExactTextPosition ==
    /\ args.f = "findExactTextPosition"
    /\ result = NoResult
    /\ result' = <<FindExactTextPosition(args.text, args.searchText, args.startPos,
                                         args.endPos, args.contextBefore,
                                         args.contextAfter)>>
    /\ UNCHANGED <<args, editorVars, schedulerVars>>

NextLocate == CallFindExactTextPosition

SpecLocate == InitLocate /\ [][NextLocate]_vars

\* C6: on "I think you you should go." with original "you", contextBefore
\* "think", contextAfter "should" and the hint at the second "you",
\* findExactTextPosition returns the span of the second "you", characters 12
\* to 15 of the text, and not the span of the first, 8 to 11.
C6_ScenarioBReturnsSecondYou ==
    (/\ result # NoResult
     /\ args.text = ThinkYouYou
     /\ args.contextBefore = Think
     /\ args.contextAfter = Should
     /\ args.startPos = H(12)
     /\ args.endPos = H(15))
    => (/\ result[1] = [start |-> H(12), end |-> H(15), found |-> TRUE]
        /\ Substring(args.text, result[1].start, result[1].end) = You
        /\ result[1].start # H(8))

\* The call of Scenario B has returned.
C6_Witness ==
    /\ result # NoResult
    /\ args.text = ThinkYouYou
    /\ args.contextBefore = Think
    /\ args.contextAfter = Should
    /\ args.startPos = H(12)
    /\ args.endPos = H(15)
    /\ Occurrences(args.text, args.searchText) = <<8, 12>>

\* The occurrence at idx has contextBefore right before it and contextAfter
\* right after it.
Surrounds(text, searchText, contextBefore, contextAfter, idx) ==
    /\ idx >= Len(contextBefore)
    /\ SubSeq(text, idx - Len(contextBefore) + 1, idx) = contextBefore
    /\ idx + Len(searchText) + Len(contextAfter) <= Len(text)
    /\ SubSeq(text, idx + Len(searchText) + 1,
              idx + Len(searchText) + Len(contextAfter)) = contextAfter

\* The occurrences of the call that its contexts surround.
Surrounded ==
    {idx \in 0..Len(args.text) :
        /\ OccursAt(args.text, args.searchText, idx)
        /\ Surrounds(args.text, args.searchText, args.contextBefore,
                     args.contextAfter, idx)}

HintIsWrong ==
    SubSeq(args.text, Trunc(args.startPos) + 1, Trunc(args.endPos)) # args.searchText

\* C7 as stated: when the hint does not verify and the contexts are the text
\* around exactly one occurrence of the original, findExactTextPosition
\* returns that occurrence, whatever the hint.
C7_SurroundedOccurrenceIsFound ==
    (/\ result # NoResult
     /\ HintIsWrong
     /\ Trim(args.contextBefore) # <<>>
     /\ Trim(args.contextAfter) # <<>>
     /\ Cardinality(Surrounded) = 1)
    => \E idx \in Surrounded :
          result[1] = [start |-> H(idx), end |-> H(idx + Len(args.searchText)),
                    found |-> TRUE]

\* contextBefore occurs in the Len(contextBefore) + 10 characters before idx
\* and contextAfter in the Len(contextAfter) + 10 characters after the
\* occurrence; a context that is empty or blank is not looked for.
InContextWindow(text, searchText, contextBefore, contextAfter, idx) ==
    LET from == Max(0, idx - Len(contextBefore) - 10)
        afterStart == idx + Len(searchText)
        to == Min(Len(text), afterStart + Len(contextAfter) + 10)
    IN  /\ Trim(contextBefore) # <<>>
           => Includes(SubSeq(text, from + 1, idx), contextBefore)
        /\ Trim(contextAfter) # <<>>
           => Includes(SubSeq(text, afterStart + 1, to), contextAfter)

\* The occurrences of the call that pass the window test of its contexts.
Windowed ==
    {idx \in 0..Len(args.text) :
        /\ OccursAt(args.text, args.searchText, idx)
        /\ InContextWindow(args.text, args.searchText, args.contextBefore,
                           args.contextAfter, idx)}

\* C7, amended: when the hint does not verify, a context is given, and
\* exactly one occurrence of the original has the contexts within its
\* windows, findExactTextPosition returns that occurrence, whatever the hint.
C7_WindowedOccurrenceIsFound ==
    (/\ result # NoResult
     /\ HintIsWrong
     /\ args.contextBefore # <<>> \/ args.contextAfter # <<>>
     /\ Cardinality(Windowed) = 1)
    => \E idx \in Windowed :
          result[1] = [start |-> H(idx), end |-> H(idx + Len(args.searchText)),
                    found |-> TRUE]

\* A call returned the later of two occurrences, the only one within the
\* windows of its contexts, on a hint at the start of the text.
C7_Witness ==
    /\ result # NoResult
    /\ HintIsWrong
    /\ args.text = IfYouGoIfYouStay
    /\ args.startPos = H(0)
    /\ args.contextBefore # <<>>
    /\ args.contextAfter # <<>>
    /\ Windowed = {14}
    /\ result[1].start = H(14)

\* The text the merges are made against.
MergeText == TehCatSat
\* The spans of the suggestions merged, in characters.
MergeSpans == {<<0, 3>>, <<0, 7>>, <<2, 5>>, <<4, 7>>}
MergeTags == {"openai-", "typo-", "typo-immediate-", "id-"}
\* The lists merged have at most this many suggestions.
MaxMergeLen == 1

\* The suggestions merged: on a span of the text, their original the text
\* at the span or not, of every source; the counter of the id is n.
MergeSuggestions(n) ==
    {NewSuggestion([tag |-> tag, n |-> n], H(span[1]), H(span[2]),
                   IF valid THEN SubSeq(MergeText, span[1] + 1, span[2])
                   ELSE ServerSuggested,
                   ServerSuggested, <<>>, <<>>) :
        tag \in MergeTags, span \in MergeSpans, valid \in BOOLEAN}

\* The lists of at most MaxMergeLen of them.
MergeLists(n) ==
    UNION {[1..len -> MergeSuggestions(n)] : len \in 0..MaxMergeLen}

MergeInputs ==
    {[f |-> "mergeSuggestionsIntelligently", existingSuggestions |-> e,
      newSuggestions |-> n, currentText |-> MergeText] :
        e \in MergeLists(1), n \in MergeLists(2)}

InitMerge ==
    /\ EditorIdle
    /\ args \in MergeInputs
    /\ result = NoResult

CallMergeSuggestionsIntelligently ==
    /\ args.f = "mergeSuggestionsIntelligently"
    /\ result = NoResult
    /\ result' = <<MergeSuggestionsIntelligently(args.existingSuggestions,
                                                 args.newSuggestions,
                                                 args.currentText)>>
    /\ UNCHANGED <<args, editorVars, schedulerVars>>

NextMerge == CallMergeSuggestionsIntelligently

SpecMerge == InitMerge /\ [][NextMerge]_vars

\* The call merges one dictionary suggestion into one semantic suggestion
\* that is valid against the text and that it overlaps.
DictionaryMeetsSemantic ==
    /\ args.f = "mergeSuggestionsIntelligently"
    /\ Len(args.existingSuggestions) = 1
    /\ Len(args.newSuggestions) = 1
    /\ args.existingSuggestions[1].id.tag = "openai-"
    /\ args.newSuggestions[1].id.tag \in {"typo-", "typo-immediate-"}
    /\ SubSeq(args.currentText,
              Trunc(args.existingSuggestions[1].position.start) + 1,
              Trunc(args.existingSuggestions[1].position.end))
          = args.existingSuggestions[1].original
    /\ args.newSuggestions[1].position.start
          < args.existingSuggestions[1].position.end
    /\ args.existingSuggestions[1].position.start
          < args.newSuggestions[1].position.end

\* C4: given one existing semantic suggestion that is valid against the text
\* and one incoming dictionary suggestion that overlaps it,
\* mergeSuggestionsIntelligently returns the semantic suggestion and not the
\* dictionary suggestion.
C4_SemanticOutranksDictionary ==
    (result # NoResult /\ DictionaryMeetsSemantic)
    => (/\ \E i \in 1..Len(result[1]) : result[1][i] = args.existingSuggestions[1]
        /\ \A i \in 1..Len(result[1]) : result[1][i] # args.newSuggestions[1])

\* Such a merge has returned, of a dictionary suggestion for "Teh" into a
\* semantic suggestion for "Teh cat".
C4_Witness ==
    /\ result # NoResult
    /\ DictionaryMeetsSemantic
    /\ args.existingSuggestions[1].position = [start |-> H(0), end |-> H(7)]
    /\ args.newSuggestions[1].position = [start |-> H(0), end |-> H(3)]
    /\ result[1] = args.existingSuggestions

(***************************************************************************)
(* The incremental analysis: the change handler of the text area, whose     *)
(* 2 s timer calls analyzeTextAutomatic, and the three stretches of          *)
(* analyzeTextAutomatic between its awaits.                                  *)
(***************************************************************************)
\* analyzeTextAutomatic resets the scheduler and returns on a shorter text
MinAutomaticLen == 5
\* The delay of the typing timer, in milliseconds
TypingDelay == 2000

TehCat == <<"T", "e", "h", " ", "c", "a", "t", ".">>
TehCatSatDot == <<"T", "e", "h", " ", "c", "a", "t", " ", "s", "a", "t", ".">>
ADog == <<"A", " ", "d", "o", "g", ".">>
ATehDog == <<"A", " ", "t", "e", "h", " ", "d", "o", "g", ".">>
Break == <<NL, NL>>

\* The contents the text area may be left with: "Teh cat.\n\nA dog." and
\* edits of one of its paragraphs (a word added to the first, a word added
\* to the second, a space after the second, the second made a copy of the
\* first), and two short documents, "Teh\n\na" and "T\n\na".
SectionTexts ==
    {TehCat \o Break \o ADog,
     TehCatSatDot \o Break \o ADog,
     TehCat \o Break \o ATehDog,
     TehCat \o Break \o ADog \o <<" ">>,
     TehCat \o Break \o TehCat,
     <<"T", "e", "h">> \o Break \o <<"a">>,
     <<"T">> \o Break \o <<"a">>}

InitSections ==
    /\ EditorIdle
    /\ args = NoArgs
    /\ result = NoResult

\* handleChange on a change event that left newValue in the text area: the
\* diff, updateSuggestionPositions, and the 2 s timer replaced by one that
\* calls analyzeTextAutomatic(newValue) of this render.
HandleChangeTo(texts) ==
    /\ edits < MaxEdits
    /\ \E newValue \in texts :
          LET oldValue == previousText
              changeStart == ChangeStart(oldValue, newValue)
              updated == UpdatedSuggestions(suggestions, oldValue, newValue, changeStart)
              repositioned == oldValue # newValue /\ suggestions # <<>>
          IN  /\ newValue # value
              /\ value' = newValue
              /\ previousText' = newValue
              /\ suggestions' = IF repositioned THEN updated ELSE suggestions
              /\ selectedSuggestion' =
                    IF repositioned THEN UpdatedSelection(selectedSuggestion, updated)
                    ELSE selectedSuggestion
              /\ typingTimeout' = Append(ClearTimeout(typingTimeout, edits),
                                         [id |-> edits + 1,
                                          callback |-> "analyzeTextAutomatic",
                                          text |-> newValue,
                                          suggestions |-> suggestions,
                                          selectedSuggestion |-> selectedSuggestion])
              /\ AutoAnalyzeEffect(newValue, suggestions')
    /\ edits' = edits + 1
    /\ UNCHANGED <<debouncedImmediateAnalysis, spellChecks, analyses, analyzing,
                   clock, requests, toast>>
    /\ UNCHANGED <<schedulerVars, harnessVars>>

HandleChange == HandleChangeTo(SectionTexts)

\* The 2 s timer fires: analyzeTextAutomatic(text) up to its first await.
\* A short text resets the scheduler; a text with no changed section ends
\* the pass; else Date.now() is read and the dictionary files are awaited.
AutomaticAnalysisStarts ==
    /\ \E i \in 1..Len(typingTimeout) :
          LET text == typingTimeout[i].text
              currentSections == SplitTextIntoAnalysisSections(text)
              changedSections == DetectChangedSections(currentSections,
                                                       previousTextSections)
              now == IF clock < 0 THEN 0 ELSE clock + TypingDelay
          IN  /\ typingTimeout[i].callback = "analyzeTextAutomatic"
              /\ typingTimeout' = RemoveAt(typingTimeout, i)
              /\ IF Len(text) < MinAutomaticLen
                 THEN /\ suggestions' = <<>>
                      /\ previousTextSections' = <<>>
                      /\ sectionSuggestions' = {}
                      /\ UNCHANGED <<analyzing, automaticAnalyses, clock>>
                 ELSE IF changedSections = <<>>
                 THEN /\ analyzing' = FALSE
                      /\ UNCHANGED <<suggestions, previousTextSections,
                                     sectionSuggestions, automaticAnalyses, clock>>
                 ELSE /\ analyzing' = TRUE
                      /\ clock' = now
                      /\ automaticAnalyses' =
                            Append(automaticAnalyses,
                                   [stage |-> "dictionary",
                                    dictionary |-> FALSE,
                                    text |-> text,
                                    currentSections |-> currentSections,
                                    changedSections |-> changedSections,
                                    suggestionIdCounter |-> now,
                                    suggestions |-> typingTimeout[i].suggestions])
                      /\ UNCHANGED <<suggestions, previousTextSections,
                                     sectionSuggestions>>
    /\ UNCHANGED <<value, previousText, selectedSuggestion,
                   debouncedImmediateAnalysis, spellChecks, analyses, edits,
                   requests, toast>>
    /\ UNCHANGED <<mountVars, harnessVars>>

\* A variant that checks the words whether or not the dictionary was made.
PassTypoSuggestionsUnguarded(a, dictionary) ==
    SectionTypoSuggestions(a.changedSections, a.text, a.suggestionIdCounter)

\* newTypoSuggestions of a pass (lines 1044-1099): what `if (dictionary)`
\* pushes; nothing when the dictionary files could not be fetched.
PassTypoSuggestions(a, dictionary) ==
    IF dictionary
    THEN SectionTypoSuggestions(a.changedSections, a.text, a.suggestionIdCounter)
    ELSE <<>>

\* allCurrentSuggestions differs from the suggestions of the closure
\* (lines 1117-1118).
DiffersFrom(allCurrentSuggestions, closed) ==
    \/ Len(allCurrentSuggestions) # Len(closed)
    \/ \E i \in 1..Len(allCurrentSuggestions) :
          ~HasId(closed, allCurrentSuggestions[i].id)

\* The dictionary files arrive, or do not: analyzeTextAutomatic from line
\* 1061 to its end.  With a dictionary the changed sections are checked and
\* their cache entries set; the collected suggestions replace the set when
\* they differ from the closure's; the remote request for the changed
\* sections is sent; the partition is recorded.
AutomaticSpellCheckResolves ==
    /\ \E i \in 1..Len(automaticAnalyses), dictionary \in BOOLEAN :
          LET a == automaticAnalyses[i]
              newTypoSuggestions == PassTypoSuggestions(a, dictionary)
              stored == IF dictionary
                        THEN StoreSections(sectionSuggestions, a.changedSections,
                                           newTypoSuggestions)
                        ELSE sectionSuggestions
              allCurrentSuggestions ==
                  CollectCurrentSuggestions(a.currentSections, newTypoSuggestions,
                                            stored)
          IN  /\ a.stage = "dictionary"
              /\ sectionSuggestions' = stored
              /\ suggestions' = IF DiffersFrom(allCurrentSuggestions, a.suggestions)
                                THEN allCurrentSuggestions
                                ELSE suggestions
              /\ automaticAnalyses' =
                    [automaticAnalyses EXCEPT
                        ![i] = [a EXCEPT !.stage = "remote",
                                         !.dictionary = dictionary,
                                         !.suggestionIdCounter =
                                             a.suggestionIdCounter
                                                 + Len(newTypoSuggestions)]]
              /\ previousTextSections' = a.currentSections
    /\ UNCHANGED <<value, previousText, selectedSuggestion, typingTimeout,
                   debouncedImmediateAnalysis, spellChecks, analyses, analyzing,
                   clock, edits, requests, toast>>
    /\ UNCHANGED <<mountVars, harnessVars>>

\* A variant that leaves the flag as it is.
AnalysisSettlesNever == UNCHANGED analyzing

\* .finally(() => setAnalyzing(false)) of the background analysis.
AnalysisSettles == analyzing' = FALSE

\* /api/analyze answers analyzeChangedSectionsWithOpenAI: what it maps back
\* is merged into the current set against the text of the call, and the flag
\* is cleared.  An error answer maps to nothing.
SectionsAnalysisResolves ==
    /\ \E i \in 1..Len(automaticAnalyses) :
          \E response \in ServerResponses(
                              CombinedText(automaticAnalyses[i].changedSections)) :
             LET a == automaticAnalyses[i]
                 openAISuggestions ==
                     IF response.ok
                     THEN MappedSuggestions(a.changedSections, a.text,
                                            response.suggestions, 0,
                                            a.suggestionIdCounter)
                     ELSE <<>>
             IN  /\ a.stage = "remote"
                 /\ automaticAnalyses' = RemoveAt(automaticAnalyses, i)
                 /\ suggestions' =
                       IF openAISuggestions # <<>>
                       THEN MergeSuggestionsIntelligently(suggestions,
                                                          openAISuggestions, a.text)
                       ELSE suggestions
    /\ AnalysisSettles
    /\ UNCHANGED <<value, previousText, selectedSuggestion, typingTimeout,
                   debouncedImmediateAnalysis, spellChecks, analyses, clock, edits,
                   requests, toast>>
    /\ UNCHANGED <<previousTextSections, sectionSuggestions, mountVars, harnessVars>>

NextSections ==
    \/ HandleChange
    \/ AutomaticAnalysisStarts
    \/ AutomaticSpellCheckResolves
    \/ SectionsAnalysisResolves

SpecSections == InitSections /\ [][NextSections]_vars

\* The paragraphs of SectionTexts are separated by exactly two line feeds:
\* where the k-th of the paragraphs ps starts.
RECURSIVE ParagraphStart(_, _)
ParagraphStart(ps, k) ==
    IF k = 1 THEN 0 ELSE ParagraphStart(ps, k - 1) + Len(ps[k - 1]) + 2

\* The section lies within the k-th paragraph of ps.
Covers(section, ps, k) ==
    /\ section.startIndex >= ParagraphStart(ps, k)
    /\ section.endIndex <= ParagraphStart(ps, k) + Len(ps[k])

SectionsCovering(sections, ps, k) ==
    LET InParagraph(section) == Covers(section, ps, k)
    IN  SelectSeq(sections, InParagraph)

\* before and after have as many paragraphs and differ in the k-th only.
EditConfinedTo(before, after, k) ==
    LET old == SplitParagraphs(before)
        new == SplitParagraphs(after)
    IN  /\ Len(old) = Len(new)
        /\ k \in 1..Len(new)
        /\ \A j \in 1..Len(new) : (old[j] # new[j]) <=> (j = k)

\* The sections whose hash no previous section has.
NewlyHashed(sections, previous) ==
    LET Fresh(section) ==
            \A i \in 1..Len(previous) : previous[i].hash # section.hash
    IN  SelectSeq(sections, Fresh)

\* In a step of AutomaticAnalysisStarts: the text of the pass, and the
\* changed set it found (none when the pass ended there).
PassText == typingTimeout[1].text
PassChanged ==
    IF Len(automaticAnalyses') > Len(automaticAnalyses)
    THEN automaticAnalyses'[Len(automaticAnalyses')].changedSections
    ELSE <<>>

\* The cache says of the section's hash after the step what it said before.
EntryIntact(section) ==
    /\ CacheHas(sectionSuggestions', section.hash)
          = CacheHas(sectionSuggestions, section.hash)
    /\ CacheHas(sectionSuggestions, section.hash)
          => CacheGet(sectionSuggestions', section.hash)
                = CacheGet(sectionSuggestions, section.hash)

\* The pass i goes from the dictionary stage to the remote one in this step.
DictionaryStepOf(i) ==
    /\ AutomaticSpellCheckResolves
    /\ i \in 1..Len(automaticAnalyses)
    /\ automaticAnalyses[i].stage = "dictionary"
    /\ automaticAnalyses'[i].stage = "remote"

\* C9 as stated: the changed set of a pass is the sections whose hash no
\* section of the previous partition has; and when the text of the pass is
\* an edit of one paragraph of the text of the previous partition, the
\* changed set is the sections covering that paragraph, and the pass leaves
\* the cache entry of every other section as it was.
C9_ChangedSetIsTheEditedParagraph ==
    [][/\ AutomaticAnalysisStarts =>
            /\ Len(PassText) >= MinAutomaticLen =>
                  PassChanged = NewlyHashed(SplitTextIntoAnalysisSections(PassText),
                                            previousTextSections)
            /\ \A before \in SectionTexts :
                  \A k \in 1..Len(SplitParagraphs(PassText)) :
                     /\ previousTextSections = SplitTextIntoAnalysisSections(before)
                     /\ EditConfinedTo(before, PassText, k)
                     => LET sections == SplitTextIntoAnalysisSections(PassText)
                            ps == SplitParagraphs(PassText)
                        IN  /\ PassChanged = SectionsCovering(sections, ps, k)
                            /\ \A j \in 1..Len(sections) :
                                  ~Covers(sections[j], ps, k)
                                  => EntryIntact(sections[j])
       /\ \A i \in 1..Len(automaticAnalyses) :
             DictionaryStepOf(i) =>
                \A before \in SectionTexts :
                   \A k \in 1..Len(SplitParagraphs(automaticAnalyses[i].text)) :
                      /\ previousTextSections = SplitTextIntoAnalysisSections(before)
                      /\ EditConfinedTo(before, automaticAnalyses[i].text, k)
                      => LET sections == automaticAnalyses[i].currentSections
                             ps == SplitParagraphs(automaticAnalyses[i].text)
                         IN  \A j \in 1..Len(sections) :
                                ~Covers(sections[j], ps, k) => EntryIntact(sections[j])
      ]_vars

\* C9, amended: the changed set of a pass is the sections whose hash no
\* section of the previous partition has; when the text of the pass, of at
\* least five characters, is an edit of one paragraph of the text of the
\* previous partition, every changed section lies in that paragraph, and it
\* is the sections covering the paragraph unless the hash of the paragraph
\* is the hash of a previous section; the start of the pass leaves the cache
\* as it was, and its dictionary stage leaves the entry of every section
\* outside the changed set as it was.
C9_ChangedSetIsTheNewHashesOfTheEditedParagraph ==
    [][/\ AutomaticAnalysisStarts /\ Len(PassText) >= MinAutomaticLen =>
            /\ PassChanged = NewlyHashed(SplitTextIntoAnalysisSections(PassText),
                                         previousTextSections)
            /\ sectionSuggestions' = sectionSuggestions
            /\ \A before \in SectionTexts :
                  \A k \in 1..Len(SplitParagraphs(PassText)) :
                     /\ previousTextSections = SplitTextIntoAnalysisSections(before)
                     /\ EditConfinedTo(before, PassText, k)
                     => LET sections == SplitTextIntoAnalysisSections(PassText)
                            ps == SplitParagraphs(PassText)
                            covering == SectionsCovering(sections, ps, k)
                        IN  /\ \A j \in 1..Len(PassChanged) :
                                  Covers(PassChanged[j], ps, k)
                            /\ \/ PassChanged = covering
                               \/ \E j \in 1..Len(covering) :
                                     \E p \in 1..Len(previousTextSections) :
                                        previousTextSections[p].hash = covering[j].hash
       /\ \A i \in 1..Len(automaticAnalyses) :
             DictionaryStepOf(i) =>
                \A j \in 1..Len(automaticAnalyses[i].currentSections) :
                   LET section == automaticAnalyses[i].currentSections[j]
                   IN  (\A c \in 1..Len(automaticAnalyses[i].changedSections) :
                           automaticAnalyses[i].changedSections[c].hash # section.hash)
                       => EntryIntact(section)
      ]_vars

\* Two passes have run, the second on "Teh cat.\n\nA teh dog.", an edit of
\* the second paragraph of the text of the first: the partition is that of
\* the edited text, and the cache holds the suggestion of the first
\* paragraph under the id of the first pass next to an entry of the edited
\* paragraph.
C9_Witness ==
    LET before == TehCat \o Break \o ADog
        after == TehCat \o Break \o ATehDog
        sections == SplitTextIntoAnalysisSections(after)
    IN  /\ value = after
        /\ EditConfinedTo(before, after, 2)
        /\ previousTextSections = sections
        /\ CacheHas(sectionSuggestions, SimpleHash(ADog))
        /\ CacheHas(sectionSuggestions, sections[2].hash)
        /\ CacheHas(sectionSuggestions, sections[1].hash)
        /\ CacheGet(sectionSuggestions, sections[1].hash) # <<>>
        /\ CacheGet(sectionSuggestions, sections[1].hash)[1].id.n = 0
        /\ CacheGet(sectionSuggestions, sections[2].hash) # <<>>
        /\ CacheGet(sectionSuggestions, sections[2].hash)[1].id.n = TypingDelay

(***************************************************************************)
(* Properties of the editor: what removes a suggestion, and what the      *)
(* analyses that resolve late are merged against                           *)
(***************************************************************************)
IdsOf(list) == {list[i].id : i \in 1..Len(list)}

\* The step is dismissSuggestion of s.
IsDismissalOf(s) ==
    LET NotDismissed(t) == t.id # s.id
    IN  /\ suggestions' = SelectSeq(suggestions, NotDismissed)
        /\ UNCHANGED <<value, typingTimeout, debouncedImmediateAnalysis, spellChecks,
                       analyses, analyzing, requests, toast, automaticAnalyses>>

\* The step puts a new suggestion that overlaps s into the set.
IsEvictedByMerge(s) ==
    \E t \in {suggestions'[i] : i \in 1..Len(suggestions')} :
       /\ t.id \notin IdsOf(suggestions)
       /\ Overlaps(t, s)

\* C11: a suggestion leaves the live set only when its span no longer
\* verifies, when it is applied, when it is dismissed, or when a merge evicts
\* it for an overlapping suggestion; no other step removes a suggestion whose
\* span still verifies.  Stated for the steps that leave the text as it is
\* (an apply that removes a suggestion changes the text).
C11_OnlyTheFourWaysRemoveASuggestion ==
    [][value' = value =>
         \A s \in Live :
            (HoldsItsOriginal(s, value) /\ s.id \notin IdsOf(suggestions'))
            => IsDismissalOf(s) \/ IsEvictedByMerge(s)]_vars

\* The step is the answer of /api/analyze to the i-th call in flight.
ResolvesAnalysis(i) ==
    /\ i \in 1..Len(analyses)
    /\ analyses' = RemoveAt(analyses, i)

\* The step is the failure branch of analyzeTextManual.
AnalysisFailed == toast' = "Analysis failed" /\ suggestions' = suggestions

\* C12: when a remote analysis resolves after the text has changed since the
\* request, its suggestions are located and merged against the text as it
\* is at completion, not the text of the request.
C12_LateAnalysisMergesAgainstCurrentText ==
    [][\A i \in 1..Len(analyses) :
          (ResolvesAnalysis(i) /\ value # analyses[i].text)
          => \/ AnalysisFailed
             \/ \E response \in ServerResponses(analyses[i].text) :
                   \E existing \in {suggestions, analyses[i].suggestions} :
                      /\ response.ok
                      /\ suggestions' =
                            MergeSuggestionsIntelligently(
                                existing,
                                CorrectedSuggestions(value, response.suggestions),
                                value)]_vars

\* C13: each merge of a result that resolves reads the suggestion set as the
\* most recent update left it: the set after the step is the merge of the
\* result into the set before the step.
C13_EachMergeReadsTheLatestSet ==
    [][/\ \A i \in 1..Len(analyses) :
             ResolvesAnalysis(i)
             => \/ AnalysisFailed
                \/ \E response \in ServerResponses(analyses[i].text) :
                      \E text \in {value, analyses[i].text} :
                         /\ response.ok
                         /\ suggestions' =
                               MergeSuggestionsIntelligently(
                                   suggestions,
                                   CorrectedSuggestions(text, response.suggestions),
                                   text)
       /\ \A i \in 1..Len(spellChecks) :
             spellChecks' = RemoveAt(spellChecks, i)
             => \/ suggestions' = suggestions
                \/ suggestions' =
                      MergeSuggestionsIntelligently(
                          suggestions,
                          NewTypoSuggestions(spellChecks[i].text,
                                             spellChecks[i].suggestionIdCounter),
                          spellChecks[i].text)]_vars

(***************************************************************************)
(* Properties of the timers                                                *)
(***************************************************************************)
\* C14: each text-changing input event cancels the pending 2 s timer and
\* starts a new one: after an input event the one pending timer is the one
\* the event set, on the text the event left, and a timer that fires is the
\* timer the most recent input event set.
C14_OnlyTheLatestTimerFires ==
    [][/\ IsEdit =>
            /\ Len(typingTimeout') = 1
            /\ typingTimeout'[1].id = edits'
            /\ typingTimeout'[1].text = value'
       /\ \A i \in 1..Len(typingTimeout) :
             (typingTimeout' = RemoveAt(typingTimeout, i) /\ edits' = edits)
             => typingTimeout[i].id = edits]_vars

\* Two input events were handled and the timer of the second has fired.
C14_Witness ==
    /\ edits = 2
    /\ typingTimeout = <<>>
    /\ previousText = value
    /\ value \notin InitialContents

\* C15: a failed remote call raises the warning only when the Analyze button
\* started the analysis; the answer to an analysis the 2 s timer started
\* raises no toast.
C15_TimerAnalysisFailsSilently ==
    [][\A i \in 1..Len(analyses) :
          (ResolvesAnalysis(i) /\ analyses[i].trigger = "timer")
          => toast' = toast]_vars

(***************************************************************************)
(* Properties of the incremental pass                                      *)
(***************************************************************************)
\* The suggestions some entry of the cache holds.
Cached == UNION {{entry[2][k] : k \in 1..Len(entry[2])} : entry \in sectionSuggestions}

\* C16: when the dictionary files cannot be fetched during a pass, the
\* pass raises no toast, produces no dictionary suggestion (the cache is
\* left as it was, and what the set gains the cache held already), and the
\* remote request of the pass is still sent.
C16_PassWithoutDictionaryStillAsksTheAnalyzer ==
    [][\A i \in 1..Len(automaticAnalyses) :
          (DictionaryStepOf(i) /\ ~automaticAnalyses'[i].dictionary)
          => /\ toast' = toast
             /\ sectionSuggestions' = sectionSuggestions
             /\ \A k \in 1..Len(suggestions') :
                   suggestions'[k] \in Live \cup Cached
             /\ automaticAnalyses'[i].suggestionIdCounter
                   = automaticAnalyses[i].suggestionIdCounter
             /\ automaticAnalyses'[i].stage = "remote"
             /\ automaticAnalyses'[i].changedSections # <<>>]_vars

\* A pass on "Teh cat.\n\nA dog.", which has a misspelled word, went on to
\* its remote request without the dictionary, and the set is empty.
C16_Witness ==
    /\ \E i \in 1..Len(automaticAnalyses) :
          /\ automaticAnalyses[i].stage = "remote"
          /\ ~automaticAnalyses[i].dictionary
          /\ automaticAnalyses[i].text = TehCat \o Break \o ADog
    /\ suggestions = <<>>
    /\ sectionSuggestions = {}
    /\ toast = NoToast

(***************************************************************************)
(* Properties of apply and dismiss                                         *)
(***************************************************************************)
\* C17: applySuggestion and dismissSuggestion start and schedule no
\* analysis, neither themselves nor through the content change apply reports
\* to the parent: no request, no dictionary check and no timer is added.
C17_ApplyAndDismissStartNoAnalysis ==
    [][(ApplySuggestion \/ DismissSuggestion)
       => /\ UNCHANGED <<analyses, spellChecks, automaticAnalyses, typingTimeout,
                         debouncedImmediateAnalysis, requests, analyzing>>
          /\ autoAnalysisTimeout' \in {autoAnalysisTimeout, <<>>}]_vars

\* The step is applySuggestion of a suggestion whose original was found.
IsSuccessfulApply ==
    /\ selectedSuggestion # <<>>
    /\ Locate(value, selectedSuggestion[1]).found
    /\ edits' = edits
    /\ toast' = "Suggestion applied"
    /\ selectedSuggestion' = <<>>

MergePairInputs ==
    {[f |-> "mergeSuggestionsIntelligently", existingSuggestions |-> e,
      newSuggestions |-> n, currentText |-> MergeText] :
        e \in MergeLists(1) \cup {<<a, b>> : a \in MergeSuggestions(1),
                                            b \in MergeSuggestions(3)},
        n \in MergeLists(2)}

InitMergePair ==
    /\ EditorIdle
    /\ args \in MergePairInputs
    /\ result = NoResult

SpecMergePair == InitMergePair /\ [][NextMerge]_vars

\* No two suggestions of the list overlap.
ConflictFree(list) ==
    \A i, j \in 1..Len(list) : i # j => ~Overlaps(list[i], list[j])

\* C19: the set mergeSuggestionsIntelligently returns has no two suggestions
\* whose spans overlap, whatever the existing set (itself without overlap)
\* and the incoming list of one producer.
C19_MergedSetIsConflictFree ==
    (/\ result # NoResult
     /\ args.f = "mergeSuggestionsIntelligently"
     /\ ConflictFree(args.existingSuggestions)
     /\ \A i, j \in 1..Len(args.newSuggestions) :
           GetSuggestionSource(args.newSuggestions[i])
              = GetSuggestionSource(args.newSuggestions[j]))
    => ConflictFree(result[1])

(***************************************************************************)
(* Properties of the ids                                                   *)
(***************************************************************************)
\* The suggestions the step brings into the set.
Entering ==
    {suggestions'[k] : k \in 1..Len(suggestions')} \ Live

\* C20: a suggestion the remote analyzer produced enters the live set under
\* an id that getSuggestionSource classifies as semantic ('openai-'), and a
\* dictionary suggestion under one it classifies as dictionary ('typo-').
C20_IdsCarryTheirSource ==
    [][/\ \A i \in 1..Len(analyses) :
             ResolvesAnalysis(i)
             => \A t \in Entering :
                   t.id \notin IdsOf(analyses[i].suggestions)
                   => GetSuggestionSource(t) = "openai"
       /\ \A i \in 1..Len(spellChecks) :
             spellChecks' = RemoveAt(spellChecks, i)
             => \A t \in Entering : GetSuggestionSource(t) = "typo"]_vars

(***************************************************************************)
(* The editor given another document: the parent renders it with another   *)
(* content and another documentId.                                         *)
(***************************************************************************)
\* The Editor rendered with the content of another document and its
\* documentId.  The effect on [content] copies the content into value and
\* previousText; the auto-analyze effect sees another documentId, clears
\* autoAnalysisCompleted, and schedules analyzeTextManual when the content
\* is long enough and no analysis is under way (its cleanup cleared the
\* timer of the render before).  Nothing else of the editor is written.
\* The document the editor is switched to: "A dog.\n\nTeh cat."
DocumentContents == {ADog \o Break \o TehCat}

SwitchDocument ==
    /\ \E content \in DocumentContents :
          LET scheduled == Len(Trim(content)) > MinAutoAnalysisLen /\ ~analyzing
          IN  /\ content # value
              /\ value' = content
              /\ previousText' = content
              /\ autoAnalysisCompleted' = scheduled
              /\ autoAnalysisTimeout' =
                    IF scheduled
                    THEN <<[text |-> content, suggestions |-> suggestions]>>
                    ELSE <<>>
    /\ UNCHANGED <<suggestions, selectedSuggestion, typingTimeout,
                   debouncedImmediateAnalysis, spellChecks, analyses, analyzing,
                   clock, edits, requests, toast>>
    /\ UNCHANGED <<schedulerVars, harnessVars>>

NextDocuments ==
    \/ HandleChange
    \/ AutomaticAnalysisStarts
    \/ AutomaticSpellCheckResolves
    \/ SectionsAnalysisResolves
    \/ SwitchDocument

SpecDocuments == InitSections /\ [][NextDocuments]_vars

MaxCalls == 2

Teh == <<"t", "e", "h">>

\* The calls: "teh" looked for in "teh teh" or ".teh teh", on a hint at 0, 1
\* or 4, with no context or a space before.
RelocateInputs ==
    {[f |-> "findExactTextPosition", text |-> text, searchText |-> Teh,
      startPos |-> H(startPos), endPos |-> H(startPos + Len(Teh)),
      contextBefore |-> contextBefore, contextAfter |-> <<>>] :
        text \in {TehTeh, <<".">> \o TehTeh}, startPos \in {0, 1, 4},
        contextBefore \in {<<>>, <<" ">>}}

\* A variant that looks in the text of the editor instead of its argument.
CallFindExactTextPositionOnValue ==
    /\ \E a \in RelocateInputs :
          LET found == FindExactTextPosition(value, a.searchText, a.startPos,
                                             a.endPos, a.contextBefore,
                                             a.contextAfter)
          IN  /\ a = args => Len(result) < MaxCalls
              /\ args' = a
              /\ result' = IF a = args THEN Append(result, found) ELSE <<found>>
    /\ UNCHANGED <<editorVars, schedulerVars>>

\* A call of findExactTextPosition (lines 1331-1403) in whatever state the
\* editor is in, on the arguments of the call before or on others.
CallFindExactTextPositionAgain ==
    /\ \E a \in RelocateInputs :
          LET found == FindExactTextPosition(a.text, a.searchText, a.startPos,
                                             a.endPos, a.contextBefore,
                                             a.contextAfter)
          IN  /\ a = args => Len(result) < MaxCalls
              /\ args' = a
              /\ result' = IF a = args THEN Append(result, found) ELSE <<found>>
    /\ UNCHANGED <<editorVars, schedulerVars>>

NextRelocate ==
    \/ HandleTyping
    \/ ImmediateDebounceFires
    \/ ImmediateSpellCheckResolves
    \/ TypingTimeoutFires
    \/ CallFindExactTextPositionAgain

SpecRelocate == InitTyping /\ [][NextRelocate]_vars

TheCatSat == <<"T", "h", "e", " ", "c", "a", "t", " ", "s", "a", "t", ".">>
TheCatSat2 == TheCatSat \o <<" ">> \o TheCatSat
TheCatSat4 == TheCatSat2 \o <<" ">> \o TheCatSat2
TheCatSat8 == TheCatSat4 \o <<" ">> \o TheCatSat4
\* "The cat sat." sixteen times, a space between: 207 characters
LongParagraph == TheCatSat8 \o <<" ">> \o TheCatSat8
\* The same with " Yes." after it
LongParagraphYes == LongParagraph \o <<" ", "Y", "e", "s", ".">>

SplitParagraphTexts == {TehCat, ADog, <<" ">>, LongParagraph, LongParagraphYes}
SplitSeparators == {<<NL, NL>>, <<NL, " ", NL>>, <<NL, NL, NL>>}

SplitInputs ==
    {[f |-> "splitTextIntoAnalysisSections", text |-> text] :
        text \in SplitParagraphTexts
                 \cup {p \o sep \o q : p \in SplitParagraphTexts,
                                      sep \in SplitSeparators,
                                      q \in SplitParagraphTexts}}

InitSplit ==
    /\ EditorIdle
    /\ args \in SplitInputs
    /\ result = NoResult

CallSplitTextIntoAnalysisSections ==
    /\ args.f = "splitTextIntoAnalysisSections"
    /\ result = NoResult
    /\ result' = <<SplitTextIntoAnalysisSections(args.text)>>
    /\ UNCHANGED <<args, editorVars, schedulerVars>>

NextSplit == CallSplitTextIntoAnalysisSections

SpecSplit == InitSplit /\ [][NextSplit]_vars

\* The character at the 0-based index k lies in the section.
InSection(section, k) == section.startIndex <= k /\ k < section.endIndex

\* C23: the sections splitTextIntoAnalysisSections returns are in document
\* order (ascending startIndex), no two of them overlap in
\* [startIndex, endIndex), and every character of the text that is not white
\* space lies in one of them.
C23_SectionsAreOrderedDisjointAndCover ==
    (result # NoResult /\ args.f = "splitTextIntoAnalysisSections")
    => LET sections == result[1]
       IN  /\ \A i, j \in 1..Len(sections) :
                 i < j => sections[i].startIndex <= sections[j].startIndex
           /\ \A i, j \in 1..Len(sections) :
                 i # j => \/ sections[i].endIndex <= sections[j].startIndex
                          \/ sections[j].endIndex <= sections[i].startIndex
           /\ \A k \in 0..(Len(args.text) - 1) :
                 ~IsSpace(args.text[k + 1])
                 => \E i \in 1..Len(sections) : InSection(sections[i], k)


(***************************************************************************)
(* Properties of mergeSuggestionsIntelligently                             *)
(***************************************************************************)
\* C24: the list mergeSuggestionsIntelligently returns is in ascending order
\* of position.start.
C24_MergedListIsSortedByStart ==
    (result # NoResult /\ args.f = "mergeSuggestionsIntelligently")
    => \A i, j \in 1..Len(result[1]) :
          i < j => result[1][i].position.start <= result[1][j].position.start

\* A merge has returned two suggestions, the incoming one, which starts
\* before the existing one, first.
C24_Witness ==
    /\ result # NoResult
    /\ args.f = "mergeSuggestionsIntelligently"
    /\ Len(args.existingSuggestions) = 1
    /\ Len(args.newSuggestions) = 1
    /\ args.newSuggestions[1].position.start
          < args.existingSuggestions[1].position.start
    /\ result[1] = <<args.newSuggestions[1], args.existingSuggestions[1]>>

\* The suggestions of the list
Members(list) == {list[i] : i \in 1..Len(list)}

\* C25: an incoming dictionary suggestion that overlaps an existing semantic
\* suggestion still valid against the text is not in the list the merge
\* returns, and that semantic suggestion is, whatever other existing
\* suggestions the incoming one overlaps.
C25_BlockedDictionarySuggestionNeverEnters ==
    (result # NoResult /\ args.f = "mergeSuggestionsIntelligently")
    => \A n \in Members(args.newSuggestions) :
          \A e \in Members(args.existingSuggestions) :
             (/\ GetSuggestionSource(n) = "typo"
              /\ GetSuggestionSource(e) = "openai"
              /\ IsStillValid(e, args.currentText)
              /\ Overlaps(n, e))
             => (n \notin Members(result[1]) /\ e \in Members(result[1]))

(***************************************************************************)
(* mergeSuggestionsIntelligently on an existing set of at most one         *)
(* suggestion and an incoming list of up to two                            *)
(***************************************************************************)
MergeBatchInputs ==
    {[f |-> "mergeSuggestionsIntelligently", existingSuggestions |-> e,
      newSuggestions |-> n, currentText |-> MergeText] :
        e \in MergeLists(1),
        n \in MergeLists(2) \cup {<<a, b>> : a \in MergeSuggestions(2),
                                            b \in MergeSuggestions(3)}}

InitMergeBatch ==
    /\ EditorIdle
    /\ args \in MergeBatchInputs
    /\ result = NoResult

SpecMergeBatch == InitMergeBatch /\ [][NextMerge]_vars

\* The incoming suggestion n overlaps the existing suggestion e, which is
\* valid against the text, and they are not a dictionary suggestion coming
\* onto a semantic one.
Displaces(n, e) ==
    /\ IsStillValid(e, args.currentText)
    /\ Overlaps(n, e)
    /\ ~(GetSuggestionSource(n) = "typo" /\ GetSuggestionSource(e) = "openai")

GivesWay(new, k) ==
    \/ \E later \in (k + 1)..Len(new) :
          /\ Overlaps(new[later], new[k])
          /\ ~(/\ GetSuggestionSource(new[later]) = "typo"
               /\ GetSuggestionSource(new[k]) = "openai")
    \/ \E earlier \in 1..(k - 1) :
          /\ Overlaps(new[k], new[earlier])
          /\ GetSuggestionSource(new[k]) = "typo"
          /\ GetSuggestionSource(new[earlier]) = "openai"

ScoreOf(idx) ==
    ContextMatch(args.text, args.searchText, args.contextBefore,
                 args.contextAfter, idx).score

\* The occurrences of the original in the text of the call.
OccurrencesOfCall ==
    {idx \in 0..Len(args.text) : OccursAt(args.text, args.searchText, idx)}

\* C27: when the hint does not verify and a context is given, the span
\* findExactTextPosition returns is that of an occurrence of the original
\* whose score, 1 + 2 for contextBefore within the len(contextBefore) + 10
\* characters before it + 2 for contextAfter within the
\* len(contextAfter) + 10 characters after it, is the highest of all
\* occurrences.
C27_ReturnsAHighestScoringOccurrence ==
    (/\ result # NoResult
     /\ args.f = "findExactTextPosition"
     /\ ~HintVerifies(args.text, args.searchText, args.startPos, args.endPos)
     /\ args.contextBefore # <<>> \/ args.contextAfter # <<>>
     /\ OccurrencesOfCall # {})
    => \E idx \in OccurrencesOfCall :
          /\ result[1] = FoundAt(idx, Len(args.searchText))
          /\ \A other \in OccurrencesOfCall : ScoreOf(other) <= ScoreOf(idx)

\* "You", which no text of LocateTexts holds with its capital
CapitalYou == <<"Y", "o", "u">>

\* The calls: "you" or "You" looked for in the texts of LocateTexts on every
\* hint, with no context.
LocateOriginalInputs ==
    {[f |-> "findExactTextPosition", text |-> text, searchText |-> searchText,
      startPos |-> H(startPos), endPos |-> H(startPos + Len(searchText)),
      contextBefore |-> <<>>, contextAfter |-> <<>>] :
        text \in LocateTexts, searchText \in {You, CapitalYou},
        startPos \in 0..MaxHintStart}

InitLocateOriginal ==
    /\ EditorIdle
    /\ args \in LocateOriginalInputs
    /\ result = NoResult

SpecLocateOriginal == InitLocateOriginal /\ [][NextLocate]_vars

\* C28: when findExactTextPosition returns found = true, start and end are
\* integers with 0 <= start < end <= len(text), and the text from start to
\* end is the original, on every path including the fuzzy fallback.
C28_FoundSpanIsVerified ==
    (result # NoResult /\ args.f = "findExactTextPosition" /\ result[1].found)
    => /\ IsInteger(result[1].start)
       /\ IsInteger(result[1].end)
       /\ 0 <= result[1].start
       /\ result[1].start < result[1].end
       /\ result[1].end <= H(Len(args.text))
       /\ Substring(args.text, result[1].start, result[1].end) = args.searchText


(***************************************************************************)
(* The selection across updateSuggestionPositions.                         *)
(***************************************************************************)
\* An input event on a non-empty suggestion set: handleContentEditable has
\* called updateSuggestionPositions.
Repositions == edits' # edits /\ suggestions # <<>>

\* C29: after every reposition the selection is consistent with the set: a
\* selection whose suggestion was dropped is cleared, and one whose
\* suggestion was kept has the span of the suggestion with its id in the
\* updated set.
C29_SelectionFollowsTheReposition ==
    [][(Repositions /\ selectedSuggestion # <<>>)
       => IF ~HasId(suggestions', selectedSuggestion[1].id)
          THEN selectedSuggestion' = <<>>
          ELSE /\ selectedSuggestion' # <<>>
               /\ selectedSuggestion'[1].id = selectedSuggestion[1].id
               /\ selectedSuggestion'[1].position =
                     FindById(suggestions', selectedSuggestion[1].id).position]_vars

\* The last input event found a suggestion selected, and the selection now
\* has the same id and another span.
C29_Witness ==
    /\ selectedSuggestion # <<>>
    /\ \E i \in 1..Len(typingTimeout) :
          LET t == typingTimeout[i]
          IN  /\ t.id = edits
              /\ t.text = value
              /\ t.suggestions # <<>>
              /\ t.selectedSuggestion # <<>>
              /\ t.selectedSuggestion[1].id = selectedSuggestion[1].id
              /\ t.selectedSuggestion[1].position # selectedSuggestion[1].position
              /\ HasId(suggestions, selectedSuggestion[1].id)


(***************************************************************************)
(* A pass of analyzeTextAutomatic that finds no changed section.           *)
(***************************************************************************)
\* The i-th timer fires on a text of 5 characters or more, every section of
\* which has a hash of the previous partition.
UnchangedPassRuns(i) ==
    /\ typingTimeout[i].callback = "analyzeTextAutomatic"
    /\ typingTimeout' = RemoveAt(typingTimeout, i)
    /\ Len(typingTimeout[i].text) >= MinAutomaticLen
    /\ HashesOf(SplitTextIntoAnalysisSections(typingTimeout[i].text))
          \subseteq HashesOf(previousTextSections)

\* C30: a debounced pass that finds no changed section leaves the suggestion
\* set, the previous partition and the section cache unchanged, sends no
\* remote request, and puts the analyzing flag back to false.
C30_UnchangedPassIsANoOp ==
    [][\A i \in 1..Len(typingTimeout) :
          UnchangedPassRuns(i)
          => /\ suggestions' = suggestions
             /\ previousTextSections' = previousTextSections
             /\ sectionSuggestions' = sectionSuggestions
             /\ automaticAnalyses' = automaticAnalyses
             /\ requests' = requests
             /\ analyzing' = FALSE]_vars

\* Every timer has fired and every pass has ended, and the partition on
\* record is not that of the text: the pass on the text found each of its
\* hashes in the partition and recorded nothing.
C30_Witness ==
    /\ edits > 0
    /\ typingTimeout = <<>>
    /\ automaticAnalyses = <<>>
    /\ analyzing = FALSE
    /\ Len(value) >= MinAutomaticLen
    /\ previousTextSections # <<>>
    /\ previousTextSections # SplitTextIntoAnalysisSections(value)
    /\ HashesOf(SplitTextIntoAnalysisSections(value))
          \subseteq HashesOf(previousTextSections)


MaxIdleRequests == 2

\* "Teh cat.\n\nA teh dog."
IdleContents == {TehCat \o Break \o ATehDog}
IdleInserts == {<<".">>}

InitIdle == Opened(IdleContents)

HandleIdleInput == HandleContentEditableWith(IdleInserts)

IdleTimeoutFires == TypingTimeoutFiresWithin(MaxIdleRequests)

NextIdle ==
    \/ HandleIdleInput
    \/ ImmediateDebounceFires
    \/ ImmediateSpellCheckResolves
    \/ IdleTimeoutFires
    \/ AnalysisResolves

SpecIdle == InitIdle /\ [][NextIdle]_vars

\* The request the timer's analysis sends in this step, if it sends one.
TimerSendsRequest ==
    /\ Len(analyses') = Len(analyses) + 1
    /\ analyses'[Len(analyses')].trigger = "timer"

\* C32: the request sent when the 2 s timer fires after an edit carries the
\* concatenated text of the sections whose hash is not in the previous
\* partition, and no text of an unchanged section; the previous partition
\* is that of the text of the request before it when that one is still
\* awaited, else the partition on record.
C32_IdleRequestCarriesOnlyTheChangedSections ==
    [][TimerSendsRequest
       => LET text == analyses'[Len(analyses')].text
              previous == IF analyses = <<>> THEN previousTextSections
                          ELSE SplitTextIntoAnalysisSections(
                                   analyses[Len(analyses)].text)
          IN  GetContextualWindow(text).text
                 = CombinedText(DetectChangedSections(
                                    SplitTextIntoAnalysisSections(text), previous))]_vars


(***************************************************************************)
(* The suggestions left by a successful applySuggestion.                   *)
(***************************************************************************)
\* C33: after a successful applySuggestion that replaces the located span
\* [a, b) and changes the length of the text by d, every other suggestion
\* with start >= b is shifted by exactly d, every one overlapping [a, b) is
\* removed, every one with end <= a is unchanged, and each remaining
\* suggestion that held its original before the apply holds it in the new
\* text.
C33_ApplyRepositionsTheRest ==
    [][IsSuccessfulApply
       => LET applied == selectedSuggestion[1]
              located == Locate(value, applied)
              d == Len(value') - Len(value)
          IN  \A k \in 1..Len(suggestions) :
                 LET s == suggestions[k]
                     shifted == WithPosition(s, s.position.start + H(d),
                                                s.position.end + H(d))
                 IN  s.id # applied.id
                     => /\ s.position.start >= located.end
                           => /\ \E j \in 1..Len(suggestions') : suggestions'[j] = shifted
                              /\ HoldsItsOriginal(s, value)
                                    => HoldsItsOriginal(shifted, value')
                        /\ (/\ s.position.end > located.start
                            /\ s.position.start < located.end)
                           => ~HasId(suggestions', s.id)
                        /\ s.position.end <= located.start
                           => /\ \E j \in 1..Len(suggestions') : suggestions'[j] = s
                              /\ HoldsItsOriginal(s, value)
                                    => HoldsItsOriginal(s, value')]_vars


\* C34: no two suggestions of the live set share an id, after any sequence
\* of immediate dictionary checks and remote analyses.
C34_IdsAreUnique ==
    \A i, j \in 1..Len(suggestions) :
       suggestions[i].id = suggestions[j].id => i = j


(***************************************************************************)
(* The auto-analyze effect on one document: the editor mounted on a        *)
(* content of more or less than ten characters, the content edited, and    *)
(* the user or the settings changing under it.                             *)
(***************************************************************************)
\* user or userSettings.preferredTone changes: the cleanup of the effect's
\* last run clears its timer, and the effect runs on the same content and
\* documentId.
UserSettingsChange ==
    /\ IF /\ Len(Trim(value)) > MinAutoAnalysisLen
          /\ ~autoAnalysisCompleted
          /\ ~analyzing
       THEN /\ autoAnalysisCompleted' = TRUE
            /\ autoAnalysisTimeout' = <<[text |-> value, suggestions |-> suggestions]>>
       ELSE /\ autoAnalysisTimeout' = <<>>
            /\ UNCHANGED autoAnalysisCompleted
    /\ UNCHANGED <<value, previousText, suggestions, selectedSuggestion,
                   typingTimeout, debouncedImmediateAnalysis, spellChecks, analyses,
                   analyzing, clock, edits, requests, toast>>
    /\ UNCHANGED <<schedulerVars, harnessVars>>

InitReopen == Mounted(OpeningContents \cup {TehCatSat})

NextReopen ==
    \/ NextOpening
    \/ UserSettingsChange

SpecReopen == InitReopen /\ [][NextReopen]_vars

\* C35: once autoAnalysisCompleted is set for the document, no later change
\* of content, user or settings schedules the open-document analysis again:
\* the effect's timer is left as it is or cleared, never set anew.
C35_OpeningAnalysisIsScheduledOnce ==
    [][autoAnalysisCompleted
       => \/ autoAnalysisTimeout' = <<>>
          \/ autoAnalysisTimeout' = autoAnalysisTimeout]_vars

\* "Teh cat sat" was scheduled for analysis at the mount and has been edited
\* twice since; no analysis is under way and no timer of the effect is set.
C35_Witness ==
    /\ autoAnalysisCompleted
    /\ Len(value) = Len(TehCatSat) + 2
    /\ edits = 2
    /\ ~analyzing
    /\ autoAnalysisTimeout = <<>>


\* C36: selectedSuggestion is at all times null or a suggestion whose id a
\* suggestion of the live set has, after any sequence of edits, merges,
\* cleanups, analyses, applies and dismissals.
C36_SelectionIsInTheSet ==
    selectedSuggestion # <<>> => HasId(suggestions, selectedSuggestion[1].id)


\* A request to /api/analyze has been sent and not answered.
RequestOutstanding ==
    \/ analyses # <<>>
    \/ \E i \in 1..Len(automaticAnalyses) : automaticAnalyses[i].stage = "remote"

\* C37: the analyzing flag is true whenever a remote analysis request is
\* outstanding; the end of one analysis does not clear it while another,
\* started by a later timer or by the Analyze button, is in flight.
C37_AnalyzingWhileARequestIsOutstanding == RequestOutstanding => analyzing


(***************************************************************************)
(* The debounced pass when every network call is answered: the dictionary  *)
(* files arrive or fail, and /api/analyze answers or fails.                *)
(***************************************************************************)
\* The text area left with "Teh cat.\n\nA dog." or with "Teh cat.\n\nTeh
\* cat.", every section of which the first has.
PassTexts == {TehCat \o Break \o ADog, TehCat \o Break \o TehCat}

HandlePassChange == HandleChangeTo(PassTexts)

NextPass ==
    \/ HandlePassChange
    \/ AutomaticAnalysisStarts
    \/ AutomaticSpellCheckResolves
    \/ SectionsAnalysisResolves

SpecPass == InitSections /\ [][NextPass]_vars

\* A pass awaits the dictionary files; a pass awaits /api/analyze.
DictionaryPending ==
    \E i \in 1..Len(automaticAnalyses) : automaticAnalyses[i].stage = "dictionary"
RemotePending ==
    \E i \in 1..Len(automaticAnalyses) : automaticAnalyses[i].stage = "remote"

\* Every network call is answered: the dictionary files arrive or fail, and
\* /api/analyze answers or fails.  This is weak fairness of the two steps,
\* WF_vars(AutomaticSpellCheckResolves) and WF_vars(SectionsAnalysisResolves),
\* with each step's enabling condition written out.
SpecPassLive ==
    /\ SpecPass
    /\ ([]<>~DictionaryPending \/ []<><<AutomaticSpellCheckResolves>>_vars)
    /\ ([]<>~RemotePending \/ []<><<SectionsAnalysisResolves>>_vars)

C39_TimerAnalyzesTheCurrentText ==
    [][\A i \in 1..Len(typingTimeout) :
          typingTimeout' = RemoveAt(typingTimeout, i)
          => typingTimeout[i].text = value]_vars


(***************************************************************************)
(* The rewrite box: handleRewriteClick, handleRewriteWithAI and            *)
(* handleReplaceText.  The box's state (showRewriteBox, selectedText,      *)
(* selectedTextRange, rewrittenText, isRewriting) is kept in args, which   *)
(* every other handler leaves alone.  Offsets here are integers.           *)
(***************************************************************************)
ClosedRewriteBox ==
    [f |-> "rewrite", showRewriteBox |-> FALSE, selectedText |-> <<>>,
     selectedTextRange |-> <<>>, rewrittenText |-> <<>>, isRewriting |-> FALSE]

RewriteBox == IF args.f = "rewrite" THEN args ELSE ClosedRewriteBox

SentenceEnders == {".", "!", "?"}

\* The sentences getCurrentSentence collects from lastIndex on: one for each
\* run of [.!?] and one for the rest, the text trimmed, the range not.
RECURSIVE CurrentSentences(_, _)
CurrentSentences(text, lastIndex) ==
    LET enders == {j \in lastIndex + 1..Len(text) : text[j] \in SentenceEnders}
        first == CHOOSE j \in enders : \A k \in enders : j <= k
        after == {j \in first..Len(text) : text[j] \notin SentenceEnders}
        endIndex == IF after = {} THEN Len(text)
                    ELSE (CHOOSE j \in after : \A k \in after : j <= k) - 1
        remaining == Trim(SubSeq(text, lastIndex + 1, Len(text)))
    IN  IF enders = {}
        THEN IF remaining # <<>>
             THEN <<[start |-> lastIndex, end |-> Len(text), text |-> remaining]>>
             ELSE <<>>
        ELSE <<[start |-> lastIndex, end |-> endIndex,
                text |-> Trim(SubSeq(text, lastIndex + 1, endIndex))]>>
             \o CurrentSentences(text, endIndex)

GetCurrentSentence(text, cursorPos) ==
    LET sentences == CurrentSentences(text, 0)
        holding == {i \in 1..Len(sentences) :
                      /\ cursorPos >= sentences[i].start
                      /\ cursorPos <= sentences[i].end}
        found == IF holding # {}
                 THEN sentences[CHOOSE i \in holding : \A k \in holding : i <= k]
                 ELSE sentences[Len(sentences)]
    IN  IF text = <<>> THEN [text |-> <<>>, range |-> [start |-> 0, end |-> 0]]
        ELSE IF sentences # <<>>
        THEN [text |-> found.text, range |-> [start |-> found.start, end |-> found.end]]
        ELSE [text |-> text, range |-> [start |-> 0, end |-> Len(text)]]

\* getTextToRewrite with the selection [from, to) of the editor's text, the
\* caret at to; a collapsed selection has from = to.
GetTextToRewrite(from, to) ==
    LET selectedText == Trim(SubSeq(value, from + 1, to))
    IN  IF from < to /\ selectedText # <<>>
        THEN [text |-> selectedText,
              range |-> [start |-> from, end |-> from + Len(selectedText)]]
        ELSE GetCurrentSentence(value, to)

\* The selections of the user: their starts and their lengths.
MaxSelectStart == 4
MaxSelectLen == 4

\* The texts /api/rewrite answers with.
The == <<"T", "h", "e">>
RewrittenTexts == {<<>>, The}

\* The Select Text button, disabled on a blank text.
HandleRewriteClick ==
    /\ Trim(value) # <<>>
    /\ \E from \in 0..MaxSelectStart, len \in 0..MaxSelectLen :
          /\ from + len <= Len(value)
          /\ LET textToRewrite == GetTextToRewrite(from, from + len)
             IN  IF Trim(textToRewrite.text) = <<>>
                 THEN /\ toast' = "No text to rewrite"
                      /\ UNCHANGED args
                 ELSE /\ args' = [RewriteBox EXCEPT
                                    !.selectedText = textToRewrite.text,
                                    !.selectedTextRange = <<textToRewrite.range>>,
                                    !.rewrittenText = <<>>,
                                    !.showRewriteBox = TRUE]
                      /\ UNCHANGED toast
    /\ UNCHANGED <<value, previousText, suggestions, selectedSuggestion, typingTimeout,
                   debouncedImmediateAnalysis, spellChecks, analyses, analyzing,
                   clock, edits, requests>>
    /\ UNCHANGED <<mountVars, schedulerVars, result>>

\* The Rewrite with AI button, disabled during a rewrite and on a blank
\* selected text: the request is sent.
HandleRewriteWithAI ==
    /\ RewriteBox.showRewriteBox
    /\ ~RewriteBox.isRewriting
    /\ Trim(RewriteBox.selectedText) # <<>>
    /\ args' = [RewriteBox EXCEPT !.isRewriting = TRUE]
    /\ UNCHANGED <<value, previousText, suggestions, selectedSuggestion, typingTimeout,
                   debouncedImmediateAnalysis, spellChecks, analyses, analyzing,
                   clock, edits, requests>>
    /\ UNCHANGED <<mountVars, schedulerVars, result, toast>>

\* The answer of /api/rewrite, or its failure.
RewriteResolves ==
    /\ RewriteBox.isRewriting
    /\ \/ \E rewritten \in RewrittenTexts :
             /\ args' = [RewriteBox EXCEPT !.rewrittenText = rewritten,
                                           !.isRewriting = FALSE]
             /\ toast' = "Text rewritten"
       \/ /\ args' = [RewriteBox EXCEPT !.isRewriting = FALSE]
          /\ toast' = "Rewrite failed"
    /\ UNCHANGED <<value, previousText, suggestions, selectedSuggestion, typingTimeout,
                   debouncedImmediateAnalysis, spellChecks, analyses, analyzing,
                   clock, edits, requests>>
    /\ UNCHANGED <<mountVars, schedulerVars, result>>

\* The Cancel button of the box.
CancelRewrite ==
    /\ RewriteBox.showRewriteBox
    /\ RewriteBox.rewrittenText # <<>>
    /\ args' = [RewriteBox EXCEPT !.showRewriteBox = FALSE,
                                  !.selectedText = <<>>,
                                  !.selectedTextRange = <<>>,
                                  !.rewrittenText = <<>>]
    /\ UNCHANGED <<value, previousText, suggestions, selectedSuggestion, typingTimeout,
                   debouncedImmediateAnalysis, spellChecks, analyses, analyzing,
                   clock, edits, requests>>
    /\ UNCHANGED <<mountVars, schedulerVars, result, toast>>

\* The text handleReplaceText writes.
ReplacedText(text, range, rewrittenText) ==
    Substring(text, 0, H(range.start)) \o rewrittenText
        \o SubstringFrom(text, H(range.end))

\* The replacements of a run.
MaxReplacements == 1

\* The Replace Original button, shown with a rewritten text.  result lists
\* the texts the replacements took out.
HandleReplaceText ==
    /\ Len(result) < MaxReplacements
    /\ RewriteBox.showRewriteBox
    /\ RewriteBox.rewrittenText # <<>>
    /\ IF RewriteBox.selectedTextRange = <<>> \/ Trim(RewriteBox.rewrittenText) = <<>>
       THEN /\ toast' = "Cannot replace text"
            /\ UNCHANGED <<value, previousText, suggestions, selectedSuggestion,
                           mountVars, args, result>>
       ELSE LET range == RewriteBox.selectedTextRange[1]
                newText == ReplacedText(value, range, RewriteBox.rewrittenText)
                updated == UpdatedSuggestions(suggestions, value, newText, range.start)
            IN  /\ value' = newText
                /\ previousText' = newText
                /\ suggestions' = IF suggestions # <<>> THEN updated ELSE suggestions
                /\ selectedSuggestion' =
                      IF suggestions # <<>>
                      THEN UpdatedSelection(selectedSuggestion, updated)
                      ELSE selectedSuggestion
                /\ args' = [RewriteBox EXCEPT !.showRewriteBox = FALSE,
                                              !.selectedText = <<>>,
                                              !.selectedTextRange = <<>>,
                                              !.rewrittenText = <<>>]
                /\ result' = Append(result, Substring(value, H(range.start),
                                                       H(range.end)))
                /\ toast' = "Text replaced"
                /\ AutoAnalyzeEffect(newText, suggestions')
    /\ UNCHANGED <<typingTimeout, debouncedImmediateAnalysis, spellChecks, analyses,
                   analyzing, clock, edits, requests>>
    /\ UNCHANGED schedulerVars

\* The editor on "Teh cat sat" with the rewrite box: the user selects, asks
\* for a rewrite, types a period and replaces.
RewriteContents == {TehCatSat}
RewriteInserts == {<<".">>}

InitRewrite == Opened(RewriteContents)

\* The input events of a run with the rewrite box.
MaxRewriteEdits == 1

HandleRewriteInput ==
    /\ edits < MaxRewriteEdits
    /\ HandleContentEditableWith(RewriteInserts)

NextRewrite ==
    \/ HandleRewriteInput
    \/ ImmediateDebounceFires
    \/ ImmediateSpellCheckResolves
    \/ HandleRewriteClick
    \/ HandleRewriteWithAI
    \/ RewriteResolves
    \/ CancelRewrite
    \/ HandleReplaceText

SpecRewrite == InitRewrite /\ [][NextRewrite]_vars

\* The Replace Original button replaces a text.
ReplacesTheText == HandleReplaceText /\ toast' = "Text replaced"

\* C40: handleReplaceText replaces the text that was captured for the
\* rewrite: at the replacement the text between selectedTextRange.start and
\* selectedTextRange.end is selectedText, also after an edit made between
\* the selection and the replacement, and the text outside the range is
\* left as it is.
C40_ReplaceHitsTheCapturedText ==
    [][ReplacesTheText =>
          LET range == RewriteBox.selectedTextRange[1]
          IN  /\ Substring(value, H(range.start), H(range.end)) = RewriteBox.selectedText
              /\ value' = ReplacedText(value, range, RewriteBox.rewrittenText)]_vars

=============================================================================
